---- MODULE Spec2Model ----
(***************************************************************************)
(* Verification model of the variable-width wall toolpath generator of     *)
(* CuraEngine (wsd07 fork): the half-edge graph of the skeletal            *)
(* trapezoidation, the beading strategies and the wall orchestrator.       *)
(*                                                                         *)
(* The module holds several specifications, one per part of the program:   *)
(*   SpecGraph    the half-edge graph: construction, centrality, beads  *)
(*   SpecBeading  compute() of the beading strategies                      *)
(*   SpecWalls    the wall orchestrator and its caller                     *)
(*   SpecJunctions  connectJunctions and the toolpaths it generates        *)
(*   SpecToolPathOps  the toolpath passes at the end of generate()         *)
(*   SpecSeam     ZSeamConfig::getInterpolatedSeamPosition                 *)
(*   SpecRibs     the checks of generateTransitioningRibs                  *)
(*   SpecCtor     the constructor, run by parallel invocations             *)
(*   SpecBeadCount  bead count and transition thickness, fixed outer wall  *)
(*   SpecSmallFill  removeSmallFillLines on stitched toolpaths            *)
(*   SpecConnectLoop  the main loop of connectJunctions                   *)
(*   SpecTransitionMids  the transition middles of one edge               *)
(*   SpecInterpolate  interpolate with a switching radius                 *)
(*   SpecLayer    the parts of a layer: pre-filter and generateWalls       *)
(* Every specification owns a group of variables; the variables of the     *)
(* other groups stay at their idle value.                                  *)
(***************************************************************************)
EXTENDS Integers, Sequences, FiniteSets, TLC

VARIABLES
    gpc,        \* position of the graph pipeline: "built", "validated", ...
    edges,      \* the edges of graph_.edges by address: [from, to, twin, prev, next, ...]
    edgeOrder,  \* the addresses of graph_.edges in list order
    prevEdge,   \* prev_edge of the cell under construction
    nodeR,      \* distance_to_boundary_ of every node
    bead,       \* bead_count_ of every node, -1 while unset
    bpc,        \* beading: "idle" until a compute() has returned, then "computed"
    bin,        \* beading: the strategy and the arguments of the last compute()
    bout,       \* beading: the Beading the last compute() returned
    wpc,        \* walls: "idle", "constructed", "returned", "partdone", "crashed"
    wcfg,       \* walls: outline_, inset_count_, beading_strategy_scope, section_type_
    toolpaths_, \* walls: toolpaths_
    inner_contour_, \* walls: inner_contour_
    toolpaths_generated_,   \* walls: toolpaths_generated_
    wpath,      \* walls: what the last generate() dispatched to
    retToolpaths,   \* walls: what getToolPaths() returned last
    retContour, \* walls: what getInnerContour() returned last
    generate_calls, \* walls: how often generate() has run on the object
    cjpc,       \* junctions: "idle", "junctions" (generateJunctions done), "done"
    cjDomains,  \* junctions: the polygon domains, each the radii of its skeleton nodes
    cjTodo,     \* junctions: unprocessed_quad_starts of connectJunctions
    cjPaths,    \* junctions: *p_generated_toolpaths
    callpc,     \* calls: "idle", "args" (arguments chosen), "returned"
    callFn,     \* calls: the function that was called
    callArgs,   \* calls: its arguments
    callRet,    \* calls: what it returned
    ribpc,      \* ribs: "idle", "mids", "ribs", "returned", "aborted"
    ndebug,     \* ribs: the build defines NDEBUG, assert() compiles to nothing
    central_unset_count,        \* ribs: generateTransitionMids, its counter
    missing_transitions_count,  \* ribs: generateTransitioningRibs, its counter
    initialized_,   \* constructor: CrashSafeDebug::initialized_, process-wide
    handlers,   \* constructor: the invocations that installed the signal handlers
    ctorpc,     \* constructor: where every invocation is in its constructor
    accesses    \* constructor: <<invocation, "read" or "write", datum>> done so far

graphVars == <<gpc, edges, edgeOrder, prevEdge, nodeR, bead>>
beadingVars == <<bpc, bin, bout>>
wallVars == <<wpc, wcfg, toolpaths_, inner_contour_, toolpaths_generated_, wpath, retToolpaths, retContour,
              generate_calls>>
junctionVars == <<cjpc, cjDomains, cjTodo, cjPaths>>
callVars == <<callpc, callFn, callArgs, callRet>>
ribVars == <<ribpc, ndebug, central_unset_count, missing_transitions_count>>
ctorVars == <<initialized_, handlers, ctorpc, accesses>>
coreVars == <<ribVars, ctorVars>>
otherVars == <<junctionVars, callVars, coreVars>>
vars == <<gpc, edges, edgeOrder, prevEdge, nodeR, bead, bpc, bin, bout,
          wpc, wcfg, toolpaths_, inner_contour_, toolpaths_generated_, wpath,
          retToolpaths, retContour, generate_calls, cjpc, cjDomains, cjTodo, cjPaths,
          callpc, callFn, callArgs, callRet,
          ribpc, ndebug, central_unset_count, missing_transitions_count,
          initialized_, handlers, ctorpc, accesses>>

(***************************************************************************)
(* Bounds of the model.                                                    *)
(***************************************************************************)
MaxEdges == 3
MaxNodes == 3

(***************************************************************************)
(* Beading strategies (BeadingStrategy/*.cpp).  Lengths are micrometres.   *)
(***************************************************************************)

\* Bounds of the beading model: thicknesses are multiples of 50 micrometres.
MaxThicknessSteps == 33
MaxBeadCount == 5

\* Parameters of the strategies.
FixedOuterWidth == 400          \* fixed_outer_width_ (wall_line_width_0 = 0.4 mm)
ParentOptimalWidth == 500       \* optimal_width_ of the parent (preferred_bead_width_inner)
RatioNum == 1                   \* minimum_variable_line_ratio_ = RatioNum / RatioDen = 0.5
RatioDen == 2

Thicknesses == { k * 50 : k \in 0..MaxThicknessSteps }
BeadCounts == 0..MaxBeadCount

\* What a read of a coord_t that was never assigned can give: the Beading a
\* compute() declares as `Beading ret;` has no value in left_over until the
\* code assigns one.
Indeterminate == {0, -300, 12345}

RECURSIVE SumSeq(_)
SumSeq(s) == IF s = <<>> THEN 0 ELSE Head(s) + SumSeq(Tail(s))

Min2(a, b) == IF a < b THEN a ELSE b
Max2(a, b) == IF a > b THEN a ELSE b

\* struct Beading.  flow_ratios holds rationals <<num, den>>.
Beading(t, widths, locs, lo) ==
    [total_thickness |-> t, bead_widths |-> widths, toolpath_locations |-> locs,
     left_over |-> lo, flow_ratios |-> <<>>]

\* The base of the stack, the distributed strategy: n beads that share the
\* thickness evenly, each at the centre of its share.
DistributedCompute(t, n) ==
    IF n <= 0 THEN Beading(t, <<>>, <<>>, t)
    ELSE LET w == t \div n IN
         Beading(t, [i \in 1..n |-> w], [i \in 1..n |-> (i - 1) * w + w \div 2], t - n * w)

\* compute that forgets to shift the locations of the parent.
FixedOuterWallCompute_NoShift(t, n, u) ==
    IF n = 0 \/ t * RatioDen < RatioNum * FixedOuterWidth
    THEN Beading(t, <<>>, <<>>, t)
    ELSE LET inner == DistributedCompute(t - 2 * FixedOuterWidth, n - 2)
             delegated == n >= 3 /\ t > 2 * FixedOuterWidth
         IN Beading(t,
                    <<FixedOuterWidth>> \o (IF delegated THEN inner.bead_widths ELSE <<>>)
                        \o <<FixedOuterWidth>>,
                    <<FixedOuterWidth \div 2>>
                        \o (IF delegated THEN inner.toolpath_locations ELSE <<>>)
                        \o <<t - FixedOuterWidth \div 2>>,
                    IF delegated THEN inner.left_over ELSE u)

\* FixedOuterWallBeadingStrategy::compute.  u is what the unassigned
\* left_over of `Beading ret;` reads as.
\* A variant that hands every bead to the parent.
FixedOuterWallCompute_AllDelegated(t, n, u) ==
    IF n = 0 \/ t * RatioDen < RatioNum * FixedOuterWidth
    THEN Beading(t, <<>>, <<>>, t)
    ELSE DistributedCompute(t, n)

FixedOuterWallCompute(t, n, u) ==
    IF n = 0 \/ t * RatioDen < RatioNum * FixedOuterWidth
    THEN Beading(t, <<>>, <<>>, t)
    ELSE IF n = 1
    THEN Beading(t, <<FixedOuterWidth>>, <<t \div 2>>, t - FixedOuterWidth)
    ELSE IF n = 2
    THEN Beading(t, <<FixedOuterWidth, FixedOuterWidth>>,
                 <<FixedOuterWidth \div 2, t - FixedOuterWidth \div 2>>,
                 t - 2 * FixedOuterWidth)
    ELSE LET inner_bead_count == n - 2
             inner_thickness == t - 2 * FixedOuterWidth
             delegated == inner_thickness > 0 /\ inner_bead_count > 0
             inner == DistributedCompute(inner_thickness, inner_bead_count)
             widths == IF delegated THEN inner.bead_widths ELSE <<>>
             locs == IF delegated
                     THEN [i \in 1..Len(inner.toolpath_locations) |->
                              inner.toolpath_locations[i] + FixedOuterWidth]
                     ELSE <<>>
             lo == IF delegated THEN inner.left_over ELSE u
         IN Beading(t, <<FixedOuterWidth>> \o widths \o <<FixedOuterWidth>>,
                    <<FixedOuterWidth \div 2>> \o locs \o <<t - FixedOuterWidth \div 2>>, lo)

\* WideningBeadingStrategy::compute, with min_input_width_ mi and
\* min_output_width_ mo; optimal_width_ is the parent's.
WideningCompute(t, n, mi, mo) ==
    IF t < ParentOptimalWidth
    THEN IF t >= mi
         THEN LET safe_output_width == Min2(Max2(t, mo), ParentOptimalWidth)
                  lo == t - safe_output_width
              IN Beading(t, <<safe_output_width>>, <<t \div 2>>, IF lo < 0 THEN 0 ELSE lo)
         ELSE Beading(t, <<>>, <<>>, t)
    ELSE DistributedCompute(t, n)

\* FlowCompensatedBeadingStrategy::calculateFlowRatio as a rational
\* <<num, den>>: target/stable limited to [max_flow_compensation_ratio_, 1].
calculateFlowRatio(target_width, stable_width, fr) ==
    IF stable_width <= 0 THEN <<1, 1>>
    ELSE IF target_width >= stable_width THEN <<1, 1>>
    ELSE IF target_width * fr[2] <= fr[1] * stable_width THEN fr
    ELSE <<target_width, stable_width>>

\* FlowCompensatedBeadingStrategy::applyFlowCompensation.
applyFlowCompensation(beading, target_thickness, fr) ==
    LET total_stable_width == SumSeq(beading.bead_widths) IN
    IF beading.bead_widths = <<>> \/ total_stable_width <= 0
    THEN [beading EXCEPT !.total_thickness = target_thickness, !.left_over = target_thickness]
    ELSE LET flow_ratio == calculateFlowRatio(target_thickness, total_stable_width, fr)
             widths == [i \in 1..Len(beading.bead_widths) |->
                          Max2(1, (beading.bead_widths[i] * flow_ratio[1]) \div flow_ratio[2])]
             lo == target_thickness - SumSeq(widths)
         IN [total_thickness |-> target_thickness, bead_widths |-> widths,
             toolpath_locations |-> beading.toolpath_locations,
             left_over |-> IF lo < 0 THEN 0 ELSE lo,
             flow_ratios |-> [i \in 1..Len(widths) |-> flow_ratio]]

\* FlowCompensatedBeadingStrategy::compute, with min_target_width_ mt,
\* min_stable_width_ ms and max_flow_compensation_ratio_ fr.
FlowCompensatedCompute(t, n, mt, ms, fr) ==
    IF t < mt THEN Beading(t, <<>>, <<>>, t)
    ELSE IF ~(t < ms /\ t >= mt) THEN DistributedCompute(t, n)
    ELSE applyFlowCompensation(DistributedCompute(ms, n), t, fr)

(***************************************************************************)
(* The half-edge graph of the skeletal trapezoidation                      *)
(* (SkeletalTrapezoidation.cpp).  An edge is known by its address, here    *)
(* the index at which it was allocated; edgeOrder is the order of the      *)
(* std::list graph_.edges, which the loops of the code follow.             *)
(***************************************************************************)
NoEdge == 0          \* a null edge pointer

Nodes == 1..MaxNodes

\* distance_to_boundary_ of the nodes of the model.
RValues == {0, 190, 210, 300}

\* p_ of a node: the nodes of the model lie on one line, 400 apart.
NodePos(n) == 400 * n

\* vSize(edge.from_->p_ - edge.to_->p_)
edgeLength(es, e) ==
    IF NodePos(es[e].from) > NodePos(es[e].to)
    THEN NodePos(es[e].from) - NodePos(es[e].to)
    ELSE NodePos(es[e].to) - NodePos(es[e].from)

\* central_filter_dist_, the max_length generateToolpaths hands to filterCentral.
CentralFilterDist == 400

\* An edge as transferEdge allocates it.
EdgeRec(f, t, tw, p) ==
    [from |-> f, to |-> t, twin |-> tw, prev |-> p, next |-> NoEdge,
     central |-> "unset", type |-> "normal", transitions |-> <<>>]

\* edge->prev_ = prev_edge; prev_edge->next_ = edge
linkPrev(es, p, e) == IF p = NoEdge THEN es ELSE [es EXCEPT ![p].next = e]

\* Is tw one of the edges of the cell under construction (prev_edge and the
\* edges before it)?
RECURSIVE inCell(_, _, _)
inCell(es, x, tw) == x # NoEdge /\ (x = tw \/ inCell(es, es[x].prev, tw))

\* Does the cell under construction pass through node n?  The boundary of
\* a Voronoi cell visits a vertex once.
RECURSIVE cellVisits(_, _, _)
cellVisits(es, x, n) ==
    x # NoEdge /\ (es[x].from = n \/ es[x].to = n \/ cellVisits(es, es[x].prev, n))

\* The search loop of the second pass: the first candidate in list order that
\* is another edge, runs opposite to edge e and has no twin; NoEdge if none.
RECURSIVE potentialTwin(_, _, _, _)
potentialTwin(es, ord, e, k) ==
    IF k > Len(ord) THEN NoEdge
    ELSE LET c == ord[k] IN
         IF c # e /\ es[c].from = es[e].to /\ es[c].to = es[e].from /\ es[c].twin = NoEdge
         THEN c
         ELSE potentialTwin(es, ord, e, k + 1)

\* First pass: the edges without twin, in list order.
edgesWithoutTwin(es, ord) == SelectSeq(ord, LAMBDA e : es[e].twin = NoEdge)

\* One iteration of the second pass for edge e of the list made in the first
\* pass.  The iteration does not look at e's own twin_, which an earlier
\* iteration may have set.
fixOneEdge(g, e) ==
    LET pt == potentialTwin(g.es, g.ord, e, 1)
        v == Len(g.es) + 1
    IN IF pt # NoEdge
       THEN [es |-> [g.es EXCEPT ![e].twin = pt, ![pt].twin = e], ord |-> g.ord]
       ELSE [es |-> Append([g.es EXCEPT ![e].twin = v],
                           [from |-> g.es[e].to, to |-> g.es[e].from, twin |-> e,
                            prev |-> NoEdge, next |-> NoEdge, central |-> "false",
                            type |-> "extra", transitions |-> <<>>]),
             ord |-> Append(g.ord, v)]

RECURSIVE fixEdges(_, _, _)
fixEdges(g, todo, k) ==
    IF k > Len(todo) THEN g
    ELSE fixEdges(fixOneEdge(g, todo[k]), todo, k + 1)

validateAndFixGraphIntegrity(g) == fixEdges(g, edgesWithoutTwin(g.es, g.ord), 1)

\* FixedOuterWallBeadingStrategy::getOptimalBeadCount over the distributed parent.
DistributedOptimalBeadCount(thickness) ==
    (thickness + ParentOptimalWidth \div 2) \div ParentOptimalWidth

getOptimalBeadCount(thickness) ==
    IF thickness * RatioDen < RatioNum * FixedOuterWidth THEN 0
    ELSE IF thickness <= FixedOuterWidth THEN 1
    ELSE IF thickness <= 2 * FixedOuterWidth THEN 2
    ELSE 2 + DistributedOptimalBeadCount(thickness - 2 * FixedOuterWidth)

\* BeadingStrategy::getTransitionThickness of the parent; both middle
\* thresholds are one half.
BeadingStrategy_getTransitionThickness(lower_bead_count) ==
    LET lower_ideal_width == ParentOptimalWidth * lower_bead_count
        higher_ideal_width == ParentOptimalWidth * (lower_bead_count + 1)
    IN lower_ideal_width + (higher_ideal_width - lower_ideal_width) \div 2

\* FixedOuterWallBeadingStrategy::getTransitionThickness
getTransitionThickness(lower_bead_count) ==
    CASE lower_bead_count = 0 -> (RatioNum * FixedOuterWidth) \div RatioDen
      [] lower_bead_count = 1 -> FixedOuterWidth + (RatioNum * FixedOuterWidth) \div RatioDen
      [] lower_bead_count = 2 -> 2 * FixedOuterWidth + (RatioNum * ParentOptimalWidth) \div RatioDen
      [] OTHER -> 2 * FixedOuterWidth + BeadingStrategy_getTransitionThickness(lower_bead_count - 2)

\* sin(transitioning_angle / 2) for the transitioning angle of 10 degrees,
\* in thousandths: dR < dD * cap.
belowCap(dR, dD) == dR * 1000 < dD * 87

\* The value updateIsCentral gives edge e, as "true" or "false".
centralOfEdge(es, e, R) ==
    LET dR == IF R[es[e].to] > R[es[e].from] THEN R[es[e].to] - R[es[e].from]
              ELSE R[es[e].from] - R[es[e].to]
        outer_edge_filter_length == getTransitionThickness(0) \div 2
        c == IF es[e].twin = NoEdge THEN FALSE
             ELSE IF es[es[e].twin].central # "unset" THEN es[es[e].twin].central = "true"
             ELSE IF es[e].type = "extra" THEN FALSE
             ELSE IF Max2(R[es[e].from], R[es[e].to]) < outer_edge_filter_length THEN FALSE
             ELSE belowCap(dR, edgeLength(es, e))
    IN IF c THEN "true" ELSE "false"

RECURSIVE updateIsCentral(_, _, _, _)
updateIsCentral(es, ord, R, k) ==
    IF k > Len(ord) THEN es
    ELSE updateIsCentral([es EXCEPT ![ord[k]].central = centralOfEdge(es, ord[k], R)], ord, R, k + 1)

\* A node is a local maximum of distance_to_boundary_ when it is not on the
\* boundary and no edge leaving it leads to a node further from the boundary.
isLocalMaximum(es, R, n) ==
    /\ R[n] # 0
    /\ \A e \in 1..Len(es) : es[e].from = n => R[es[e].to] <= R[n]

\* The edges a loop `for (x = first; x && x != stop; x = x->twin_->next_)`
\* visits.  fuel bounds the walk by the number of edges.
RECURSIVE walkAround(_, _, _, _)
walkAround(es, x, stop, fuel) ==
    IF x = NoEdge \/ x = stop \/ fuel = 0 THEN <<>>
    ELSE <<x>> \o (IF es[x].twin = NoEdge THEN <<>>
                   ELSE walkAround(es, es[es[x].twin].next, stop, fuel - 1))

edgesAround(es, e) == walkAround(es, es[e].next, es[e].twin, Len(es))

isEndOfCentral(es, e) ==
    IF es[e].central # "true" THEN FALSE
    ELSE IF es[e].next = NoEdge THEN TRUE
    ELSE \A k \in 1..Len(edgesAround(es, e)) : es[edgesAround(es, e)[k]].central # "true"

\* filterCentral(starting_edge, traveled_dist, max_length): [dissolve, es].
RECURSIVE filterCentralFrom(_, _, _, _, _)
RECURSIVE filterCentralAround(_, _, _, _, _, _, _)
filterCentralFrom(es, R, starting_edge, traveled_dist, max_length) ==
    LET length == edgeLength(es, starting_edge) IN
    IF traveled_dist + length > max_length THEN [dissolve |-> FALSE, es |-> es]
    ELSE LET around == filterCentralAround(es, R, edgesAround(es, starting_edge), 1,
                                           traveled_dist + length, max_length, TRUE)
             should_dissolve == around.dissolve /\ ~isLocalMaximum(es, R, es[starting_edge].to)
         IN IF should_dissolve
            THEN [dissolve |-> TRUE,
                  es |-> [around.es EXCEPT ![starting_edge].central = "false",
                                           ![es[starting_edge].twin].central = "false"]]
            ELSE [dissolve |-> FALSE, es |-> around.es]

filterCentralAround(es, R, w, k, dist, max_length, acc) ==
    IF k > Len(w) THEN [dissolve |-> acc, es |-> es]
    ELSE IF es[w[k]].central = "true"
    THEN LET r == filterCentralFrom(es, R, w[k], dist, max_length)
         IN filterCentralAround(r.es, R, w, k + 1, dist, max_length, acc /\ r.dissolve)
    ELSE filterCentralAround(es, R, w, k + 1, dist, max_length, acc)

\* filterCentral(max_length): the loop over graph_.edges.
RECURSIVE filterCentral(_, _, _, _, _)
filterCentral(es, ord, R, max_length, k) ==
    IF k > Len(ord) THEN es
    ELSE LET e == ord[k] IN
         IF /\ isEndOfCentral(es, e)
            /\ isLocalMaximum(es, R, es[e].to)
            /\ ~isLocalMaximum(es, R, es[e].to)
         THEN filterCentral(filterCentralFrom(es, R, es[e].twin, 0, max_length).es,
                            ord, R, max_length, k + 1)
         ELSE filterCentral(es, ord, R, max_length, k + 1)

RECURSIVE filterOuterCentral(_, _, _)
filterOuterCentral(es, ord, k) ==
    IF k > Len(ord) THEN es
    ELSE LET e == ord[k] IN
         IF es[e].prev = NoEdge
         THEN filterOuterCentral([es EXCEPT ![e].central = "false",
                                            ![es[e].twin].central = "false"], ord, k + 1)
         ELSE filterOuterCentral(es, ord, k + 1)

\* updateBeadCount, first loop: the end node of every central edge.
RECURSIVE beadCountOfCentral(_, _, _, _, _)
beadCountOfCentral(es, ord, R, bc, k) ==
    IF k > Len(ord) THEN bc
    ELSE LET e == ord[k] IN
         IF es[e].central = "true"
         THEN beadCountOfCentral(es, ord, R, [bc EXCEPT ![es[e].to] = getOptimalBeadCount(R[es[e].to] * 2)],
                                 k + 1)
         ELSE beadCountOfCentral(es, ord, R, bc, k + 1)

\* updateBeadCount: the second loop fixes the count at the local maxima of
\* the nodes of the graph.
updateBeadCount(es, ord, R, bc) ==
    LET bc1 == beadCountOfCentral(es, ord, R, bc, 1) IN
    [n \in Nodes |->
        IF (\E e \in 1..Len(es) : es[e].from = n) /\ isLocalMaximum(es, R, n)
        THEN getOptimalBeadCount(R[n] * 2)
        ELSE bc1[n]]

\* The first edge of the walk that goes upward from distance r or is
\* shorter than 10; NoEdge when the walk ends first.
RECURSIVE firstUpward(_, _, _, _, _)
firstUpward(es, R, w, r, k) ==
    IF k > Len(w) THEN NoEdge
    ELSE IF R[es[w[k]].to] >= r \/ edgeLength(es, w[k]) < 10 THEN w[k]
    ELSE firstUpward(es, R, w, r, k + 1)

\* filterNoncentralRegions(to_edge, bead_count, traveled_dist, max_dist) with
\* max_dist = 400: [dissolve, es, bc].  depth bounds the recursion by the
\* number of edges.
RECURSIVE filterNoncentralRegionsFrom(_, _, _, _, _, _, _)
filterNoncentralRegionsFrom(es, R, bc, to_edge, bead_count, traveled_dist, depth) ==
    LET r == R[es[to_edge].to]
        next_edge == firstUpward(es, R, edgesAround(es, to_edge), r, 1)
    IN IF next_edge = NoEdge \/ depth = 0 THEN [dissolve |-> FALSE, es |-> es, bc |-> bc]
       ELSE LET length == edgeLength(es, next_edge)
                nto == es[next_edge].to
                sub == IF bc[nto] = bead_count THEN [dissolve |-> TRUE, es |-> es, bc |-> bc]
                       ELSE IF bc[nto] < 0
                       THEN filterNoncentralRegionsFrom(es, R, bc, next_edge, bead_count,
                                                        traveled_dist + length, depth - 1)
                       ELSE [dissolve |-> (traveled_dist + length < 400)
                                           /\ (bc[nto] - bead_count = 1 \/ bead_count - bc[nto] = 1),
                             es |-> es, bc |-> bc]
            IN IF sub.dissolve
               THEN [dissolve |-> TRUE,
                     es |-> [sub.es EXCEPT ![next_edge].central = "true",
                                           ![es[next_edge].twin].central = "true"],
                     bc |-> [sub.bc EXCEPT ![nto] = getOptimalBeadCount(R[nto] * 2)]]
               ELSE sub

\* filterNoncentralRegions(): the loop over graph_.edges: [es, bc].
RECURSIVE filterNoncentralRegions(_, _, _, _, _)
filterNoncentralRegions(es, ord, R, bc, k) ==
    IF k > Len(ord) THEN [es |-> es, bc |-> bc]
    ELSE LET e == ord[k] IN
         IF ~isEndOfCentral(es, e) THEN filterNoncentralRegions(es, ord, R, bc, k + 1)
         ELSE LET to == es[e].to
                  bc0 == IF ~(bc[to] >= 0 \/ R[to] = 0) /\ R[to] = 0
                         THEN [bc EXCEPT ![to] = 0] ELSE bc
                  r == filterNoncentralRegionsFrom(es, R, bc0, e, bc0[to], 0, Len(es))
              IN filterNoncentralRegions(r.es, ord, R, r.bc, k + 1)

\* The loop over the lower bead counts that stops at the first transition
\* it skips.
RECURSIVE transitionMidsOfEdgeStopping(_, _, _, _, _, _, _)
transitionMidsOfEdgeStopping(thickness, trans, lower, end_bead_count, start_R, end_R, edge_size) ==
    IF lower >= end_bead_count THEN trans
    ELSE LET raw_R == thickness[lower] \div 2
             mid_R == IF raw_R > end_R THEN end_R
                      ELSE IF raw_R < start_R THEN start_R ELSE raw_R
             mid_pos == (edge_size * (mid_R - start_R)) \div (end_R - start_R)
             skip == \/ ~(mid_pos >= 0 /\ mid_pos <= edge_size)
                     \/ (trans # <<>> /\ mid_pos < trans[Len(trans)].pos)
         IN IF skip THEN trans
            ELSE transitionMidsOfEdgeStopping(
                     thickness,
                     Append(trans, [pos |-> mid_pos, lower_bead_count |-> lower, R |-> mid_R]),
                     lower + 1, end_bead_count, start_R, end_R, edge_size)

\* The loop of generateTransitionMids over the lower bead counts of one
\* upward edge: the transition middles [pos, lower_bead_count, R], for a
\* strategy whose getTransitionThickness is the function thickness.
RECURSIVE transitionMidsOfEdgeWith(_, _, _, _, _, _, _)
transitionMidsOfEdgeWith(thickness, trans, lower, end_bead_count, start_R, end_R, edge_size) ==
    IF lower >= end_bead_count THEN trans
    ELSE LET raw_R == thickness[lower] \div 2
             mid_R == IF raw_R > end_R THEN end_R
                      ELSE IF raw_R < start_R THEN start_R ELSE raw_R
             mid_pos == (edge_size * (mid_R - start_R)) \div (end_R - start_R)
             skip == \/ ~(mid_pos >= 0 /\ mid_pos <= edge_size)
                     \/ (trans # <<>> /\ mid_pos < trans[Len(trans)].pos)
         IN transitionMidsOfEdgeWith(
                thickness,
                IF skip THEN trans
                ELSE Append(trans, [pos |-> mid_pos, lower_bead_count |-> lower, R |-> mid_R]),
                lower + 1, end_bead_count, start_R, end_R, edge_size)

\* The same loop for the fixed-outer-wall strategy; -1 is the bead count of
\* a node that has none yet.
transitionMidsOfEdge(trans, lower, end_bead_count, start_R, end_R, edge_size) ==
    transitionMidsOfEdgeWith([n \in (-1)..(2 * MaxBeadCount) |-> getTransitionThickness(n)],
                             trans, lower, end_bead_count, start_R, end_R, edge_size)

\* generateTransitionMids after its validation pass: the loop over graph_.edges.
RECURSIVE generateTransitionMids(_, _, _, _, _)
generateTransitionMids(es, ord, R, bc, k) ==
    IF k > Len(ord) THEN es
    ELSE LET e == ord[k]
             start_R == R[es[e].from]
             end_R == R[es[e].to]
             start_bead_count == bc[es[e].from]
             end_bead_count == bc[es[e].to]
             edge_size == edgeLength(es, e)
         IN IF \/ es[e].central # "true"
               \/ start_R >= end_R
               \/ start_bead_count = end_bead_count
               \/ edge_size <= 0
            THEN generateTransitionMids(es, ord, R, bc, k + 1)
            ELSE generateTransitionMids(
                     [es EXCEPT ![e].transitions =
                         transitionMidsOfEdge(@, start_bead_count, end_bead_count,
                                              start_R, end_R, edge_size)],
                     ord, R, bc, k + 1)

hasTransitions(es, e) == es[e].transitions # <<>>

(***************************************************************************)
(* The wall orchestrator (WallToolPaths.cpp) and its caller                *)
(* (WallsComputation.cpp).  Toolpaths are a sequence of buckets, position  *)
(* i of the code at index i + 1; a bucket is a sequence of lines.  An      *)
(* outline is a square, known by its width.                                *)
(***************************************************************************)
MaxInsetCount == 2      \* largest inset_count_ of the model
MaxLines == 2           \* most lines the skeletal trapezoidation emits
MaxGenerateCalls == 2   \* most runs of generate() followed on one object

BeadWidthX == 400       \* bead_width_x_ (wall_line_width_x = 0.4 mm)

Scopes == {"OFF", "ONLY_SKIN", "INNER_WALL_SKIN", "ALL"}
Sections == {"WALL", "SKIN", "SUPPORT"}
OutlineWidths == {100, 1000, 3000}

\* Integer division by zero is undefined: the build traps, or goes on with
\* some quotient.
DivisionByZero == {"trap", "continue"}

ExtrusionJunction(p, w, perimeter_index) == [p |-> p, w |-> w, perimeter_index |-> perimeter_index]

\* length stands for the geometry shorterThan() and the simplifier measure.
ExtrusionLine(inset_idx, is_odd, is_closed, junctions, length) ==
    [inset_idx |-> inset_idx, is_odd |-> is_odd, is_closed |-> is_closed,
     junctions |-> junctions, length |-> length]

lineWidth(wall_idx) == IF wall_idx = 0 THEN FixedOuterWidth ELSE BeadWidthX

\* The lines the segments of connectJunctions chain up to for inset_count n:
\* rings, whose last junction is back at the first, and odd single segments,
\* of a bead of each inset; and rings of zero width at index n, which mark
\* the inner contour.
ringJunctions(w, idx) ==
    <<ExtrusionJunction(1, w, idx), ExtrusionJunction(2, w, idx),
      ExtrusionJunction(3, w, idx), ExtrusionJunction(1, w, idx)>>

SkeletalLines(n) ==
    { ExtrusionLine(i, FALSE, FALSE, ringJunctions(lineWidth(i), i), len) :
          i \in 0..(n - 1), len \in {5, 4000} }
    \cup { ExtrusionLine(i, TRUE, FALSE,
                         <<ExtrusionJunction(5, lineWidth(i), i), ExtrusionJunction(6, lineWidth(i), i)>>,
                         len) : i \in 0..(n - 1), len \in {150, 4000} }
    \cup { ExtrusionLine(n, FALSE, FALSE, ringJunctions(0, n), 4000) }

SkeletalOutputs(n) == UNION { [1..k -> SkeletalLines(n)] : k \in 0..MaxLines }

\* addToolpathSegment that bins every line at position 0.
RECURSIVE addToolpathSegment_AllInFirst(_, _, _)
addToolpathSegment_AllInFirst(generated_toolpaths, lines, k) ==
    IF k > Len(lines) THEN generated_toolpaths
    ELSE LET resized == IF generated_toolpaths = <<>> THEN << <<>> >> ELSE generated_toolpaths
         IN addToolpathSegment_AllInFirst([resized EXCEPT ![1] = Append(@, lines[k])], lines, k + 1)

\* addToolpathSegment: a line goes to generated_toolpaths[inset_idx], which
\* is resized to hold it.
RECURSIVE addToolpathSegment(_, _, _)
addToolpathSegment(generated_toolpaths, lines, k) ==
    IF k > Len(lines) THEN generated_toolpaths
    ELSE LET inset_idx == lines[k].inset_idx
             resized == IF inset_idx >= Len(generated_toolpaths)
                        THEN generated_toolpaths
                                 \o [j \in 1..(inset_idx + 1 - Len(generated_toolpaths)) |-> <<>>]
                        ELSE generated_toolpaths
         IN addToolpathSegment([resized EXCEPT ![inset_idx + 1] = Append(@, lines[k])], lines, k + 1)

\* The stitcher closes a polyline that ends where it starts into a polygon
\* without the repeated point.
stitchesToPolygon(line) ==
    /\ ~line.is_odd
    /\ Len(line.junctions) >= 3
    /\ line.junctions[1].p = line.junctions[Len(line.junctions)].p

\* stitchToolPaths: per bucket the stitched polylines, then the closed polygons.
stitchToolPaths(toolpaths) ==
    [wall_idx \in 1..Len(toolpaths) |->
        LET wall_lines == toolpaths[wall_idx]
            stitched_polylines == SelectSeq(wall_lines, LAMBDA l : ~stitchesToPolygon(l))
            closed_polygons == SelectSeq(wall_lines, stitchesToPolygon)
        IN stitched_polylines
             \o [i \in 1..Len(closed_polygons) |->
                    [closed_polygons[i] EXCEPT
                        !.is_closed = TRUE,
                        !.junctions = SubSeq(@, 1, Len(@) - 1)]]]

RECURSIVE minWidth(_, _)
minWidth(junctions, k) ==
    IF k > Len(junctions) THEN 1000000000
    ELSE Min2(junctions[k].w, minWidth(junctions, k + 1))

\* removeSmallFillLines for one bucket that goes on to the next position
\* after a removal.
RECURSIVE removeSmallFillLinesInset_NoReconsider(_, _)
removeSmallFillLinesInset_NoReconsider(inset, line_idx) ==
    IF line_idx > Len(inset) THEN inset
    ELSE LET line == inset[line_idx] IN
         IF line.inset_idx = 0 THEN removeSmallFillLinesInset_NoReconsider(inset, line_idx + 1)
         ELSE IF line.is_odd /\ ~line.is_closed /\ line.length < minWidth(line.junctions, 1) \div 2
         THEN removeSmallFillLinesInset_NoReconsider(
                  SubSeq([inset EXCEPT ![line_idx] = inset[Len(inset)]], 1, Len(inset) - 1),
                  line_idx + 1)
         ELSE removeSmallFillLinesInset_NoReconsider(inset, line_idx + 1)

\* removeSmallFillLines for one bucket: a removed line is overwritten by the
\* last line of the bucket and the position is looked at again.
RECURSIVE removeSmallFillLinesInset(_, _)
removeSmallFillLinesInset(inset, line_idx) ==
    IF line_idx > Len(inset) THEN inset
    ELSE LET line == inset[line_idx] IN
         IF line.inset_idx = 0 THEN removeSmallFillLinesInset(inset, line_idx + 1)
         ELSE IF line.is_odd /\ ~line.is_closed /\ line.length < minWidth(line.junctions, 1) \div 2
         THEN removeSmallFillLinesInset(
                  SubSeq([inset EXCEPT ![line_idx] = inset[Len(inset)]], 1, Len(inset) - 1), line_idx)
         ELSE removeSmallFillLinesInset(inset, line_idx + 1)

removeSmallFillLines(toolpaths) ==
    [i \in 1..Len(toolpaths) |-> removeSmallFillLinesInset(toolpaths[i], 1)]

\* The simplifier leaves nothing of a line below its resolution.
simplify(line) == IF line.length < 10 THEN [line EXCEPT !.junctions = <<>>] ELSE line

\* simplifyToolPaths: simplify, close again, drop the lines left empty.
simplifyToolPaths(toolpaths) ==
    [i \in 1..Len(toolpaths) |->
        LET simplified == [k \in 1..Len(toolpaths[i]) |->
                LET line_ == simplify(toolpaths[i][k]) IN
                IF /\ line_.is_closed
                   /\ Len(line_.junctions) >= 2
                   /\ line_.junctions[1] # line_.junctions[Len(line_.junctions)]
                THEN [line_ EXCEPT !.junctions = Append(@, line_.junctions[1])]
                ELSE line_]
        IN SelectSeq(simplified, LAMBDA l : l.junctions # <<>>)]

RECURSIVE isContour(_, _, _)

\* A variant that never finds a contour.
isContour_Never(inset, k, is_contour) ==
    FALSE

\* separateOutInnerContour, the is_contour of one bucket: every line with a
\* junction overwrites the flag by its first junction.
isContour(inset, k, is_contour) ==
    IF k > Len(inset) THEN is_contour
    ELSE IF inset[k].junctions = <<>> THEN isContour(inset, k + 1, is_contour)
    ELSE isContour(inset, k + 1, inset[k].junctions[1].w = 0)

toPolygon(line) == [j \in 1..Len(line.junctions) |-> line.junctions[j].p]

\* separateOutInnerContour after its reserve() calls: [toolpaths, inner_contour].
RECURSIVE separateOutInnerContour(_, _, _, _)
separateOutInnerContour(toolpaths, k, actual_toolpaths, contour) ==
    IF k > Len(toolpaths)
    THEN [toolpaths |-> actual_toolpaths, inner_contour |-> [kind |-> "contour", polygons |-> contour]]
    ELSE LET inset == toolpaths[k] IN
         IF inset = <<>> THEN separateOutInnerContour(toolpaths, k + 1, actual_toolpaths, contour)
         ELSE IF isContour(inset, 1, FALSE)
         THEN LET closed_even == SelectSeq(inset, LAMBDA l : ~l.is_odd /\ l.is_closed)
              IN separateOutInnerContour(toolpaths, k + 1, actual_toolpaths,
                     contour \o [i \in 1..Len(closed_even) |-> toPolygon(closed_even[i])])
         ELSE separateOutInnerContour(toolpaths, k + 1, Append(actual_toolpaths, inset), contour)

removeEmptyToolPaths(toolpaths) ==
    SelectSeq([i \in 1..Len(toolpaths) |-> SelectSeq(toolpaths[i], LAMBDA l : l.junctions # <<>>)],
              LAMBDA lines : lines # <<>>)

\* removeEmptyToolPaths, its return value: toolpaths.empty() after the erase.
removeEmptyToolPathsResult(toolpaths) ==
    removeEmptyToolPaths(toolpaths) = <<>>

\* A variant of the preprocessing that keeps every outline.
preparedArea_KeepsSlivers(width) ==
    width * width

\* The preprocessing of generate(): the area left of a square outline;
\* removeSmallAreas drops an outline below the square of half a bead width.
preparedArea(width) ==
    IF width * width < (FixedOuterWidth \div 2) * (FixedOuterWidth \div 2) THEN 0 ELSE width * width

\* The switch with ONLY_SKIN taking every section but WALL for skin.
should_use_beading_strategy_NotWall(scope, section_type, inset_count) ==
    CASE scope = "OFF" -> FALSE
      [] scope = "ONLY_SKIN" -> section_type # "WALL"
      [] scope = "INNER_WALL_SKIN" -> IF section_type = "SKIN" THEN TRUE ELSE inset_count > 1
      [] OTHER -> TRUE

\* The switch of generate() over beading_strategy_scope.
should_use_beading_strategy(scope, section_type, inset_count) ==
    CASE scope = "OFF" -> FALSE
      [] scope = "ONLY_SKIN" -> section_type = "SKIN"
      [] scope = "INNER_WALL_SKIN" -> IF section_type = "SKIN" THEN TRUE ELSE inset_count > 1
      [] OTHER -> TRUE

\* The four corners of an offset polygon of generateSimpleWalls.
squareJunctions(w, idx) ==
    [p \in 1..4 |-> ExtrusionJunction(p, w, idx)]

\* generateSimpleWalls, the loop over wall_idx; current is the width of
\* current_outline, which is empty when the width is not positive.
RECURSIVE generateSimpleWalls(_, _, _, _)
generateSimpleWalls(toolpaths, current, wall_idx, inset_count) ==
    IF wall_idx >= inset_count \/ current <= 0
    THEN [toolpaths |-> toolpaths,
          inner_contour |-> [kind |-> "offset", width |-> Max2(current, 0)]]
    ELSE LET current_line_width == lineWidth(wall_idx)
             offset_distance == current_line_width \div 2
             offset_width == current - 2 * offset_distance
             wall_line == ExtrusionLine(wall_idx, FALSE, TRUE,
                                        squareJunctions(current_line_width, wall_idx), 4 * offset_width)
         IN generateSimpleWalls(
                IF offset_width > 0
                THEN [toolpaths EXCEPT ![wall_idx + 1] = Append(@, wall_line)]
                ELSE toolpaths,
                current - 2 * current_line_width, wall_idx + 1, inset_count)

\* The beading path of generate() from the lines of the skeletal
\* trapezoidation up to removeEmptyToolPaths: [toolpaths, inner_contour].
beadingToolPaths(lines) ==
    LET generated == addToolpathSegment(<<>>, lines, 1)
        simplified == simplifyToolPaths(removeSmallFillLines(stitchToolPaths(generated)))
        separated == separateOutInnerContour(simplified, 1, <<>>, <<>>)
    IN [toolpaths |-> removeEmptyToolPaths(separated.toolpaths),
        inner_contour |-> separated.inner_contour]

\* generate(): what it leaves in the object, [toolpaths, inner_contour,
\* generated, path, crashed].  lines is what the skeletal trapezoidation
\* emits, divzero what the division by inset_count_ = 0 does.
generate(cfg, lines, divzero) ==
    IF preparedArea(cfg.outline) <= 0
    THEN [toolpaths |-> <<>>, inner_contour |-> [kind |-> "empty"],
          generated |-> FALSE, path |-> "degenerate", crashed |-> FALSE]
    ELSE IF ~should_use_beading_strategy(cfg.scope, cfg.section_type, cfg.inset_count)
    THEN LET r == generateSimpleWalls([i \in 1..cfg.inset_count |-> <<>>], cfg.outline, 0,
                                      cfg.inset_count)
         IN [toolpaths |-> r.toolpaths, inner_contour |-> r.inner_contour,
             generated |-> TRUE, path |-> "simple", crashed |-> FALSE]
    ELSE IF cfg.inset_count = 0 /\ divzero = "trap"
    THEN [toolpaths |-> simplifyToolPaths(removeSmallFillLines(stitchToolPaths(
                            addToolpathSegment(<<>>, lines, 1)))),
          inner_contour |-> [kind |-> "empty"],
          generated |-> FALSE, path |-> "beading", crashed |-> TRUE]
    ELSE LET r == beadingToolPaths(lines)
         IN [toolpaths |-> r.toolpaths, inner_contour |-> r.inner_contour,
             generated |-> TRUE, path |-> "beading", crashed |-> FALSE]

NotReturned == [set |-> FALSE, value |-> <<>>]
Returned(v) == [set |-> TRUE, value |-> v]
OutlineShape(cfg) == [kind |-> "outline", width |-> cfg.outline]

WallConfigs ==
    [outline : OutlineWidths, inset_count : 0..MaxInsetCount, scope : Scopes,
     section_type : Sections]


(***************************************************************************)
(* Junctions and their connection into toolpath segments                   *)
(* (generateJunctions, connectJunctions, addToolpathSegment).  A polygon   *)
(* domain is a cycle of quads; quad j of a domain runs from the boundary   *)
(* up rib j to skeleton node j, along the skeleton to the next node of the *)
(* cycle and down the next rib.  A domain is known by the radii of its     *)
(* skeleton nodes.  A position is <<kind, domain, index, R>>.              *)
(***************************************************************************)
MaxDomainNodes == 2     \* a domain has 2 .. MaxDomainNodes skeleton nodes

\* distance_to_boundary_ of the skeleton nodes of the model.
QuadRadii == {150, 500, 530}

DomainsOfModel == UNION { [1..k -> QuadRadii] : k \in 2..MaxDomainNodes }

nextInDomain(dom, j) == IF j = Len(dom) THEN 1 ELSE j + 1

\* getOrCreateBeading for a node that has a bead count and no beading yet.
nodeBeading(R) == FixedOuterWallCompute(2 * R, getOptimalBeadCount(2 * R), 0)

\* generateJunctions, the search of the starting junction_idx (an index of
\* the code, from 0); -1 stands for the size_t that has wrapped around.
RECURSIVE firstJunctionIdx(_, _, _)
firstJunctionIdx(beading, junction_idx, start_R) ==
    IF junction_idx < 0 \/ junction_idx >= Len(beading.toolpath_locations) THEN -1
    ELSE IF beading.toolpath_locations[junction_idx + 1] <= start_R + 1 THEN junction_idx
    ELSE firstJunctionIdx(beading, junction_idx - 1, start_R)

\* generateJunctions, the loop that makes the junctions from junction_idx down.
RECURSIVE emitJunctions(_, _, _, _, _, _)
emitJunctions(beading, junction_idx, start_R, end_R, on_edge, at_node) ==
    IF junction_idx < 0 \/ junction_idx >= Len(beading.toolpath_locations) THEN <<>>
    ELSE LET bead_R == beading.toolpath_locations[junction_idx + 1] IN
         IF bead_R < end_R THEN <<>>
         ELSE <<ExtrusionJunction(IF bead_R > start_R - 5 THEN at_node
                                  ELSE <<on_edge[1], on_edge[2], on_edge[3], bead_R>>,
                                  beading.bead_widths[junction_idx + 1], junction_idx)>>
              \o emitJunctions(beading, junction_idx - 1, start_R, end_R, on_edge, at_node)

\* generateJunctions for one upward edge, from a node at end_R with bead count
\* from_bead to a node at start_R with bead count to_bead and this beading.
junctionsOfEdge(beading, start_R, end_R, from_bead, to_bead, on_edge, at_node) ==
    IF (from_bead = to_bead /\ from_bead >= 0) \/ end_R >= start_R THEN <<>>
    ELSE LET num_junctions == Len(beading.toolpath_locations)
             found == firstJunctionIdx(beading, (Max2(1, num_junctions) - 1) \div 2, start_R)
             junction_idx == IF /\ found + 1 < num_junctions
                                /\ beading.toolpath_locations[found + 2] <= start_R + 5
                                /\ beading.total_thickness < start_R + 5
                             THEN found + 1 ELSE found
         IN IF num_junctions = 0 THEN <<>>
            ELSE emitJunctions(beading, junction_idx, start_R, end_R, on_edge, at_node)

nodeAt(d, j) == <<"node", d, j, 0>>

\* The junctions of rib j of domain d: from the boundary node, which has no
\* bead count, up to skeleton node j.
ribJunctions(dom, d, j) ==
    junctionsOfEdge(nodeBeading(dom[j]), dom[j], 0, -1, getOptimalBeadCount(2 * dom[j]),
                    <<"rib", d, j>>, nodeAt(d, j))

\* The junctions of the skeleton edge of quad j, on its upward half-edge.
skeletonJunctions(dom, d, j) ==
    LET k == nextInDomain(dom, j)
        up == IF dom[j] >= dom[k] THEN j ELSE k
        low == IF dom[j] >= dom[k] THEN k ELSE j
    IN junctionsOfEdge(nodeBeading(dom[up]), dom[up], dom[low],
                       getOptimalBeadCount(2 * dom[low]), getOptimalBeadCount(2 * dom[up]),
                       <<"skel", d, j>>, nodeAt(d, up))

\* connectJunctions: the junctions of the edge to the peak followed by those
\* of the edge below it, without the ones the lower edge has as well.
RECURSIVE popCovered(_, _)
popCovered(junctions, front_index) ==
    IF junctions # <<>> /\ junctions[Len(junctions)].perimeter_index <= front_index
    THEN popCovered(SubSeq(junctions, 1, Len(junctions) - 1), front_index)
    ELSE junctions

\* A variant that puts the junctions nearer the boundary first.
joinJunctions_LowerFirst(upper, lower) ==
    lower \o upper

\* connectJunctions: the junctions towards the peak, then those of the rib,
\* after popping the ones the rib already covers.
joinJunctions(upper, lower) ==
    (IF lower = <<>> THEN upper ELSE popCovered(upper, lower[1].perimeter_index)) \o lower

\* from_junctions and to_junctions of quad j; getQuadMaxRedgeTo takes the
\* first edge that reaches the highest R.
fromJunctions(dom, d, j) ==
    IF dom[j] >= dom[nextInDomain(dom, j)] THEN ribJunctions(dom, d, j)
    ELSE joinJunctions(skeletonJunctions(dom, d, j), ribJunctions(dom, d, j))

toJunctions(dom, d, j) ==
    IF dom[j] >= dom[nextInDomain(dom, j)]
    THEN joinJunctions(skeletonJunctions(dom, d, j), ribJunctions(dom, d, nextInDomain(dom, j)))
    ELSE ribJunctions(dom, d, nextInDomain(dom, j))

\* SkeletalTrapezoidation::addToolpathSegment(from, to, is_odd,
\* force_new_path, from_is_3way, to_is_3way).  Two positions are closer
\* than 10 when they are the same position of the model.
addToolpathSegmentOf(generated_toolpaths, from, to, is_odd, force_new_path, from_is_3way, to_is_3way) ==
    IF from = to THEN generated_toolpaths
    ELSE LET inset_idx == from.perimeter_index
             resized == IF inset_idx >= Len(generated_toolpaths)
                        THEN generated_toolpaths
                                 \o [i \in 1..(inset_idx + 1 - Len(generated_toolpaths)) |-> <<>>]
                        ELSE generated_toolpaths
             bucket == resized[inset_idx + 1]
             back == bucket[Len(bucket)]
             last == back.junctions[Len(back.junctions)]
             force == \/ force_new_path
                      \/ bucket = <<>>
                      \/ back.is_odd # is_odd
                      \/ last.perimeter_index # inset_idx
             near(j) == last.p = j.p /\ last.w - j.w < 10 /\ j.w - last.w < 10
         IN IF ~force /\ near(from) /\ ~from_is_3way
            THEN [resized EXCEPT ![inset_idx + 1][Len(bucket)].junctions = Append(@, to)]
            ELSE IF ~force /\ near(to) /\ ~to_is_3way
            THEN [resized EXCEPT ![inset_idx + 1][Len(bucket)].junctions = Append(@, from)]
            ELSE [resized EXCEPT ![inset_idx + 1] =
                     Append(@, ExtrusionLine(inset_idx, is_odd, FALSE, <<from, to>>, 0))]

\* connectJunctions, the loop over junction_rev_idx for quad j of domain d.
RECURSIVE connectSegments(_, _, _, _, _, _, _, _)
connectSegments(generated_toolpaths, dom, d, j, from_junctions, to_junctions, junction_rev_idx, new_domain_start) ==
    LET segment_count == Min2(Len(from_junctions), Len(to_junctions)) IN
    IF junction_rev_idx >= segment_count THEN generated_toolpaths
    ELSE LET from == from_junctions[Len(from_junctions) - junction_rev_idx]
             to == to_junctions[Len(to_junctions) - junction_rev_idx]
             k == nextInDomain(dom, j)
             from_is_odd == /\ getOptimalBeadCount(2 * dom[j]) % 2 = 1
                            /\ junction_rev_idx = segment_count - 1
                            /\ from.p = nodeAt(d, j)
             to_is_odd == /\ getOptimalBeadCount(2 * dom[k]) % 2 = 1
                          /\ junction_rev_idx = segment_count - 1
                          /\ to.p = nodeAt(d, k)
         IN connectSegments(
                addToolpathSegmentOf(generated_toolpaths, from, to, from_is_odd /\ to_is_odd,
                                     new_domain_start, FALSE, FALSE),
                dom, d, j, from_junctions, to_junctions, junction_rev_idx + 1, new_domain_start)

\* connectJunctions, one pass of the do-while loop: quad j of domain d.  A
\* quad whose sides differ by more than one junction is skipped.
connectQuad(generated_toolpaths, dom, d, j, new_domain_start) ==
    LET from_junctions == fromJunctions(dom, d, j)
        to_junctions == toJunctions(dom, d, j)
        size_diff == IF Len(from_junctions) > Len(to_junctions)
                     THEN Len(from_junctions) - Len(to_junctions)
                     ELSE Len(to_junctions) - Len(from_junctions)
    IN IF size_diff > 1 THEN generated_toolpaths
       ELSE connectSegments(generated_toolpaths, dom, d, j, from_junctions, to_junctions,
                            0, new_domain_start)

\* connectJunctions, the do-while loop from poly_domain_start around the
\* domain: getNextUnconnected() gives the next quad of the cycle.
RECURSIVE connectDomain(_, _, _, _, _)
connectDomain(generated_toolpaths, dom, d, poly_domain_start, done) ==
    IF done >= Len(dom) THEN generated_toolpaths
    ELSE LET quad_start == ((poly_domain_start - 1 + done) % Len(dom)) + 1
         IN connectDomain(connectQuad(generated_toolpaths, dom, d, quad_start, done = 0),
                          dom, d, poly_domain_start, done + 1)

\* The quad starts of the domains: the edges without prev_.
quadStarts(domains) ==
    UNION { { <<d, j>> : j \in 1..Len(domains[d]) } : d \in 1..Len(domains) }

(***************************************************************************)
(* A specification leaves the variables of the other parts idle.           *)
(***************************************************************************)
IdleGraph ==
    /\ gpc = "idle" /\ edges = <<>> /\ edgeOrder = <<>> /\ prevEdge = NoEdge
    /\ nodeR = [n \in Nodes |-> 0] /\ bead = [n \in Nodes |-> -1]

IdleBeading == bpc = "idle" /\ bin = [strategy |-> "none"] /\ bout = Beading(0, <<>>, <<>>, 0)

IdleWalls ==
    /\ wpc = "idle"
    /\ wcfg = [outline |-> 0, inset_count |-> 0, scope |-> "ALL", section_type |-> "WALL"]
    /\ toolpaths_ = <<>>
    /\ inner_contour_ = [kind |-> "empty"]
    /\ toolpaths_generated_ = FALSE
    /\ wpath = "none"
    /\ retToolpaths = NotReturned
    /\ retContour = NotReturned
    /\ generate_calls = 0

IdleJunctions == cjpc = "idle" /\ cjDomains = <<>> /\ cjTodo = {} /\ cjPaths = <<>>

IdleCalls == callpc = "idle" /\ callFn = "" /\ callArgs = <<>> /\ callRet = <<>>

IdleRibs ==
    /\ ribpc = "idle"
    /\ ndebug = FALSE
    /\ central_unset_count = 0
    /\ missing_transitions_count = 0

IdleCtor == initialized_ = FALSE /\ handlers = {} /\ ctorpc = <<>> /\ accesses = {}

IdleCore == IdleRibs /\ IdleCtor

IdleOther == IdleJunctions /\ IdleCalls /\ IdleCore


(***************************************************************************)
(* Specification SpecBeading.                                              *)
(***************************************************************************)
\* Parameters the strategies are constructed with.
MinInputWidths == {100, 200}       \* min_feature_size
MinOutputWidths == {160, 340}      \* min_bead_width after the parameter repair
MinTargetWidths == {200}           \* min_target_width_
MinStableWidths == {400}           \* min_stable_width_
MaxFlowCompensationRatios == {<<1, 2>>, <<3, 4>>}

InitBeading ==
    /\ IdleGraph
    /\ IdleBeading
    /\ IdleWalls
    /\ IdleOther

ComputeFixedOuterWall ==
    \E t \in Thicknesses, n \in BeadCounts, u \in Indeterminate :
        /\ bin' = [strategy |-> "fixed", t |-> t, n |-> n]
        /\ bout' = FixedOuterWallCompute(t, n, u)
        /\ bpc' = "computed"
        /\ UNCHANGED <<graphVars, wallVars, otherVars>>

ComputeWidening ==
    \E t \in Thicknesses, n \in BeadCounts, mi \in MinInputWidths, mo \in MinOutputWidths :
        /\ bin' = [strategy |-> "widening", t |-> t, n |-> n]
        /\ bout' = WideningCompute(t, n, mi, mo)
        /\ bpc' = "computed"
        /\ UNCHANGED <<graphVars, wallVars, otherVars>>

ComputeFlowCompensated ==
    \E t \in Thicknesses, n \in BeadCounts, mt \in MinTargetWidths,
       ms \in MinStableWidths, fr \in MaxFlowCompensationRatios :
        /\ bin' = [strategy |-> "flow", t |-> t, n |-> n, mt |-> mt, ms |-> ms, fr |-> fr]
        /\ bout' = FlowCompensatedCompute(t, n, mt, ms, fr)
        /\ bpc' = "computed"
        /\ UNCHANGED <<graphVars, wallVars, otherVars>>

NextBeading == ComputeFixedOuterWall \/ ComputeWidening \/ ComputeFlowCompensated

SpecBeading == InitBeading /\ [][NextBeading]_vars

\* C3: every Beading returned by compute() of the fixed-outer-wall, widening
\* and flow-compensated strategies has sum(bead_widths) + left_over equal to
\* total_thickness.
C3_WidthsPlusLeftOver ==
    bpc = "computed" => SumSeq(bout.bead_widths) + bout.left_over = bout.total_thickness

\* What C4 says compute(t, n) returns: the parent's beading for
\* (t - 2*w_fixed, n - 2), shifted by w_fixed, between two fixed beads.
FixedAroundParent(t, n, b) ==
    LET inner == DistributedCompute(t - 2 * FixedOuterWidth, n - 2)
        k == Len(inner.bead_widths)
    IN /\ Len(b.bead_widths) = k + 2
       /\ Len(b.toolpath_locations) = k + 2
       /\ b.bead_widths[1] = FixedOuterWidth
       /\ b.toolpath_locations[1] = FixedOuterWidth \div 2
       /\ b.bead_widths[k + 2] = FixedOuterWidth
       /\ b.toolpath_locations[k + 2] = t - FixedOuterWidth \div 2
       /\ \A i \in 1..k :
             /\ b.bead_widths[i + 1] = inner.bead_widths[i]
             /\ b.toolpath_locations[i + 1] = inner.toolpath_locations[i] + FixedOuterWidth

\* C4 as claimed: for every n >= 3 and every thickness for which beads are
\* produced, fixed-outer-wall compute delegates (t - 2*w_fixed, n - 2) to the
\* parent, shifts its locations by w_fixed and adds the two fixed beads.
C4_DelegatesWheneverBeads ==
    (bpc = "computed" /\ bin.strategy = "fixed" /\ bin.n >= 3 /\ bout.bead_widths # <<>>)
        => FixedAroundParent(bin.t, bin.n, bout)

\* C4 (amended): for every n >= 3 and every thickness above 2*w_fixed,
\* fixed-outer-wall compute delegates (t - 2*w_fixed, n - 2) to the parent,
\* shifts its locations by w_fixed and adds the two fixed beads; for a
\* thickness from w_fixed/2 up to 2*w_fixed nothing is delegated and only
\* the two fixed beads are returned.
C4_DelegatesAboveTwoFixed ==
    (bpc = "computed" /\ bin.strategy = "fixed" /\ bin.n >= 3) =>
        /\ bin.t > 2 * FixedOuterWidth => FixedAroundParent(bin.t, bin.n, bout)
        /\ (bin.t <= 2 * FixedOuterWidth /\ bin.t * RatioDen >= RatioNum * FixedOuterWidth) =>
              /\ bout.bead_widths = <<FixedOuterWidth, FixedOuterWidth>>
              /\ bout.toolpath_locations =
                     <<FixedOuterWidth \div 2, bin.t - FixedOuterWidth \div 2>>

\* C4 witness: the example w_fixed = 400, t = 1600, n = 4.
C4_Witness ==
    /\ bpc = "computed" /\ bin.strategy = "fixed" /\ bin.n = 4 /\ bin.t = 1600
    /\ bout.toolpath_locations = <<200, 600, 1000, 1400>>
    /\ bout.bead_widths = <<400, 400, 400, 400>>

\* C18: in every Beading returned by fixed-outer-wall compute the
\* toolpath_locations are strictly increasing, for every thickness and bead
\* count for which beads are produced.
C18_LocationsStrictlyIncreasing ==
    (bpc = "computed" /\ bin.strategy = "fixed") =>
        \A i \in 1..(Len(bout.toolpath_locations) - 1) :
            bout.toolpath_locations[i] < bout.toolpath_locations[i + 1]

\* C19: in every non-empty Beading returned by fixed-outer-wall compute the
\* first and the last bead have exactly the fixed outer width, whatever the
\* thickness and the bead count.
C19_OuterBeadsHaveFixedWidth ==
    (bpc = "computed" /\ bin.strategy = "fixed" /\ bout.bead_widths # <<>>) =>
        /\ bout.bead_widths[1] = FixedOuterWidth
        /\ bout.bead_widths[Len(bout.bead_widths)] = FixedOuterWidth

\* C19 witness: a beading of three beads or more whose inner beads, the
\* parent's, have another width than the two outer ones.
C19_Witness ==
    /\ bpc = "computed"
    /\ bin.strategy = "fixed"
    /\ Len(bout.bead_widths) >= 3
    /\ bout.bead_widths[2] # FixedOuterWidth
    /\ bout.bead_widths[1] = FixedOuterWidth
    /\ bout.bead_widths[Len(bout.bead_widths)] = FixedOuterWidth

\* C20: for a thickness t with min_target_width <= t < min_stable_width,
\* flow-compensated compute returns the beading the parent computes at
\* min_stable_width, with one flow ratio per bead such that the extruded
\* amount, the sum over the beads of bead width times flow ratio, equals t.
\* A flow ratio is the fraction <<numerator, denominator>>.
C20_FlowRatiosGiveTrueThickness ==
    (bpc = "computed" /\ bin.strategy = "flow" /\ bin.mt <= bin.t /\ bin.t < bin.ms) =>
        LET stable == DistributedCompute(bin.ms, bin.n)
            k == Len(bout.bead_widths)
        IN /\ bout.bead_widths = stable.bead_widths
           /\ bout.toolpath_locations = stable.toolpath_locations
           /\ Len(bout.flow_ratios) = k
           /\ \A i \in 1..k : bout.flow_ratios[i] = bout.flow_ratios[1]
           /\ k > 0 => SumSeq(bout.bead_widths) * bout.flow_ratios[1][1]
                           = bin.t * bout.flow_ratios[1][2]

\* C29: every Beading returned by compute has left_over >= 0, for every
\* strategy, thickness and bead count.
C29_LeftOverNotNegative ==
    bpc = "computed" => bout.left_over >= 0

(***************************************************************************)
(* Specification SpecGraph.                                                *)
(***************************************************************************)
InitGraph ==
    /\ gpc = "building"
    /\ edges = <<>>
    /\ edgeOrder = <<>>
    /\ prevEdge = NoEdge
    /\ nodeR \in [Nodes -> RValues]
    /\ bead = [n \in Nodes |-> -1]
    /\ IdleBeading
    /\ IdleWalls
    /\ IdleOther

\* transferEdge for a Voronoi edge whose twin has not been transferred: one
\* new edge without twin, from the end of prev_edge if there is one.
TransferEdgeNew ==
    \E f \in Nodes, t \in Nodes :
        LET v0 == IF prevEdge # NoEdge THEN edges[prevEdge].to ELSE f
            e == Len(edges) + 1
        IN /\ gpc = "building"
           /\ Len(edges) < MaxEdges
           /\ t # v0
           /\ ~cellVisits(edges, prevEdge, t)
           /\ edges' = Append(linkPrev(edges, prevEdge, e), EdgeRec(v0, t, NoEdge, prevEdge))
           /\ edgeOrder' = <<e>> \o edgeOrder
           /\ prevEdge' = e
           /\ UNCHANGED <<gpc, nodeR, bead>>
           /\ UNCHANGED <<beadingVars, wallVars, otherVars>>

\* transferEdge for a Voronoi edge whose twin tw has been transferred in
\* another cell: the new edge runs opposite to tw and the two become twins.
TransferEdgeTwin ==
    \E tw \in 1..Len(edges) :
        LET e == Len(edges) + 1 IN
        /\ gpc = "building"
        /\ Len(edges) < MaxEdges
        /\ edges[tw].twin = NoEdge
        /\ ~inCell(edges, prevEdge, tw)
        /\ edges' = Append([linkPrev(edges, prevEdge, e) EXCEPT ![tw].twin = e],
                           EdgeRec(edges[tw].to, edges[tw].from, tw, prevEdge))
        /\ edgeOrder' = <<e>> \o edgeOrder
        /\ prevEdge' = e
        /\ UNCHANGED <<gpc, nodeR, bead>>
        /\ UNCHANGED <<beadingVars, wallVars, otherVars>>

\* constructFromPolygons goes to the next cell: prev_edge starts as nullptr.
NextCell ==
    /\ gpc = "building"
    /\ prevEdge # NoEdge
    /\ prevEdge' = NoEdge
    /\ UNCHANGED <<gpc, edges, edgeOrder, nodeR, bead>>
    /\ UNCHANGED <<beadingVars, wallVars, otherVars>>

\* The end of construction: constructFromPolygons and then the constructor
\* run the validation pass.
ConstructorValidate ==
    /\ gpc = "building"
    /\ edges # <<>>
    /\ LET g == validateAndFixGraphIntegrity(
                    validateAndFixGraphIntegrity([es |-> edges, ord |-> edgeOrder]))
       IN edges' = g.es /\ edgeOrder' = g.ord
    /\ gpc' = "validated"
    /\ UNCHANGED <<prevEdge, nodeR, bead>>
    /\ UNCHANGED <<beadingVars, wallVars, otherVars>>

UpdateIsCentral ==
    /\ gpc = "validated"
    /\ edges' = updateIsCentral(edges, edgeOrder, nodeR, 1)
    /\ gpc' = "central"
    /\ UNCHANGED <<edgeOrder, prevEdge, nodeR, bead>>
    /\ UNCHANGED <<beadingVars, wallVars, otherVars>>

FilterCentral ==
    /\ gpc = "central"
    /\ edges' = filterCentral(edges, edgeOrder, nodeR, CentralFilterDist, 1)
    /\ gpc' = "filtered"
    /\ UNCHANGED <<edgeOrder, prevEdge, nodeR, bead>>
    /\ UNCHANGED <<beadingVars, wallVars, otherVars>>

\* Runs when generateToolpaths is called with filter_outermost_central_edges.
FilterOuterCentral ==
    /\ gpc = "filtered"
    /\ edges' = filterOuterCentral(edges, edgeOrder, 1)
    /\ gpc' = "outerfiltered"
    /\ UNCHANGED <<edgeOrder, prevEdge, nodeR, bead>>
    /\ UNCHANGED <<beadingVars, wallVars, otherVars>>

UpdateBeadCount ==
    /\ gpc \in {"filtered", "outerfiltered"}
    /\ bead' = updateBeadCount(edges, edgeOrder, nodeR, bead)
    /\ gpc' = "beadcount"
    /\ UNCHANGED <<edges, edgeOrder, prevEdge, nodeR>>
    /\ UNCHANGED <<beadingVars, wallVars, otherVars>>

FilterNoncentralRegions ==
    /\ gpc = "beadcount"
    /\ LET r == filterNoncentralRegions(edges, edgeOrder, nodeR, bead, 1)
       IN edges' = r.es /\ bead' = r.bc
    /\ gpc' = "regions"
    /\ UNCHANGED <<edgeOrder, prevEdge, nodeR>>
    /\ UNCHANGED <<beadingVars, wallVars, otherVars>>

\* generateTransitioningRibs up to its check of the transitions: the
\* validation pass, then generateTransitionMids with its own validation pass.
GenerateTransitionMids ==
    /\ gpc = "regions"
    /\ LET g == validateAndFixGraphIntegrity(
                    validateAndFixGraphIntegrity([es |-> edges, ord |-> edgeOrder]))
       IN /\ edges' = generateTransitionMids(g.es, g.ord, nodeR, bead, 1)
          /\ edgeOrder' = g.ord
    /\ gpc' = "mids"
    /\ UNCHANGED <<prevEdge, nodeR, bead>>
    /\ UNCHANGED <<beadingVars, wallVars, otherVars>>

NextGraph ==
    \/ TransferEdgeNew
    \/ TransferEdgeTwin
    \/ NextCell
    \/ ConstructorValidate
    \/ UpdateIsCentral
    \/ FilterCentral
    \/ FilterOuterCentral
    \/ UpdateBeadCount
    \/ FilterNoncentralRegions
    \/ GenerateTransitionMids

SpecGraph == InitGraph /\ [][NextGraph]_vars

\* C1: after the graph is constructed and the integrity-validation pass has
\* run, every edge has a twin and the twin of its twin is the edge itself.
C1_TwinInvolution ==
    gpc \notin {"idle", "building"} =>
        \A i \in 1..Len(edges) :
            /\ edges[i].twin # NoEdge
            /\ edges[edges[i].twin].twin = i

\* C5: the central filter clears is_central on every end-of-central edge
\* whose end node is not a local maximum and whose region, walked inward
\* within central_filter_dist, holds no local maximum.
C5_CentralFilterClears ==
    [][(gpc = "central" /\ gpc' = "filtered") =>
          \A e \in 1..Len(edges) :
              (/\ isEndOfCentral(edges, e)
               /\ ~isLocalMaximum(edges, nodeR, edges[e].to)
               /\ filterCentralFrom(edges, nodeR, edges[e].twin, 0, CentralFilterDist).dissolve)
                  => edges'[e].central = "false"]_vars

\* C8: after centrality has been computed and after each centrality filter,
\* every edge has the same is_central value as its twin.
C8_TwinsShareCentrality ==
    gpc \in {"central", "filtered", "outerfiltered", "regions"} =>
        \A e \in 1..Len(edges) : edges[e].central = edges[edges[e].twin].central

\* C9: before segment generation, every central edge whose end nodes have
\* different bead counts has a transition middle on itself or on its twin.
C9_TransitionOnDifferingEdge ==
    gpc = "mids" =>
        \A e \in 1..Len(edges) :
            (edges[e].central = "true" /\ bead[edges[e].from] # bead[edges[e].to])
                => (hasTransitions(edges, e) \/ hasTransitions(edges, edges[e].twin))


(***************************************************************************)
(* Specification SpecWalls.                                                *)
(***************************************************************************)
InitWalls ==
    /\ IdleWalls
    /\ IdleGraph
    /\ IdleBeading
    /\ IdleOther

\* The constructor of WallToolPaths.
Construct ==
    \E cfg \in WallConfigs :
        /\ wpc = "idle"
        /\ wcfg' = cfg
        /\ wpc' = "constructed"
        /\ UNCHANGED <<toolpaths_, inner_contour_, toolpaths_generated_, wpath, retToolpaths, retContour,
                       generate_calls>>
        /\ UNCHANGED graphVars
        /\ UNCHANGED <<beadingVars, otherVars>>

\* WallsComputation::generateWalls(part): without walls the part's inner
\* area is its outline and no WallToolPaths is made; with walls one is made,
\* and getToolPaths() and getInnerContour() are called on it.
GenerateWallsPart ==
    \E cfg \in WallConfigs :
        /\ wpc = "idle"
        /\ wcfg' = cfg
        /\ IF cfg.inset_count = 0
           THEN /\ wpc' = "partdone"
                /\ retToolpaths' = Returned(<<>>)
                /\ retContour' = Returned(OutlineShape(cfg))
           ELSE /\ wpc' = "constructed"
                /\ UNCHANGED <<retToolpaths, retContour>>
        /\ UNCHANGED <<toolpaths_, inner_contour_, toolpaths_generated_, wpath, generate_calls>>
        /\ UNCHANGED graphVars
        /\ UNCHANGED <<beadingVars, otherVars>>

\* The object after generate() has run with result r.
Generated(r) ==
    /\ toolpaths_' = r.toolpaths
    /\ inner_contour_' = r.inner_contour
    /\ toolpaths_generated_' = r.generated
    /\ wpath' = r.path
    /\ generate_calls' = generate_calls + 1

\* getToolPaths()
GetToolPaths ==
    /\ wpc \in {"constructed", "returned"}
    /\ IF toolpaths_generated_
       THEN /\ retToolpaths' = Returned(toolpaths_)
            /\ wpc' = "returned"
            /\ UNCHANGED <<toolpaths_, inner_contour_, toolpaths_generated_, wpath, generate_calls>>
       ELSE \E lines \in SkeletalOutputs(wcfg.inset_count), divzero \in DivisionByZero :
                LET r == generate(wcfg, lines, divzero) IN
                /\ generate_calls < MaxGenerateCalls
                /\ Generated(r)
                /\ wpc' = IF r.crashed THEN "crashed" ELSE "returned"
                /\ retToolpaths' = IF r.crashed THEN retToolpaths ELSE Returned(r.toolpaths)
    /\ UNCHANGED <<wcfg, retContour>>
    /\ UNCHANGED graphVars
    /\ UNCHANGED <<beadingVars, otherVars>>

\* getInnerContour()
GetInnerContour ==
    /\ wpc \in {"constructed", "returned"}
    /\ IF ~toolpaths_generated_ /\ wcfg.inset_count > 0
       THEN \E lines \in SkeletalOutputs(wcfg.inset_count), divzero \in DivisionByZero :
                LET r == generate(wcfg, lines, divzero) IN
                /\ generate_calls < MaxGenerateCalls
                /\ Generated(r)
                /\ wpc' = IF r.crashed THEN "crashed" ELSE "returned"
                /\ retContour' = IF r.crashed THEN retContour ELSE Returned(r.inner_contour)
       ELSE /\ retContour' = Returned(IF wcfg.inset_count = 0 THEN OutlineShape(wcfg)
                                      ELSE inner_contour_)
            /\ wpc' = "returned"
            /\ UNCHANGED <<toolpaths_, inner_contour_, toolpaths_generated_, wpath, generate_calls>>
    /\ UNCHANGED <<wcfg, retToolpaths>>
    /\ UNCHANGED graphVars
    /\ UNCHANGED <<beadingVars, otherVars>>

NextWalls == Construct \/ GenerateWallsPart \/ GetToolPaths \/ GetInnerContour

SpecWalls == InitWalls /\ [][NextWalls]_vars

\* The inset_idx of the lines of a returned bucket.
insetsOf(bucket) == { bucket[j].inset_idx : j \in 1..Len(bucket) }

\* C2 as claimed: in the toolpaths generate() returns, the bucket at position
\* i holds only lines with inset_idx = i, and inset_idx is strictly
\* increasing across buckets, also after empty lines, empty buckets and
\* contour buckets have been removed.
C2_BucketAtPositionHoldsThatInset ==
    retToolpaths.set =>
        \A k \in 1..Len(retToolpaths.value) : insetsOf(retToolpaths.value[k]) \subseteq {k - 1}

\* C2 (amended): all lines of a returned bucket have one inset_idx, which is
\* at least the position of the bucket and strictly increasing across the
\* buckets that hold lines; on the simple-offset path it is the position.
C2_BucketsIncreaseByInset ==
    retToolpaths.set =>
        /\ \A k \in 1..Len(retToolpaths.value) :
              /\ Cardinality(insetsOf(retToolpaths.value[k])) <= 1
              /\ \A i \in insetsOf(retToolpaths.value[k]) : i >= k - 1
              /\ wpath = "simple" => insetsOf(retToolpaths.value[k]) \subseteq {k - 1}
        /\ \A k, l \in 1..Len(retToolpaths.value) :
              k < l => \A i \in insetsOf(retToolpaths.value[k]),
                          j \in insetsOf(retToolpaths.value[l]) : i < j

\* C2 witness: the beading path has removed the emptied bucket of inset 0 and
\* returns the lines of inset 1 at position 0.
C2_Witness ==
    /\ retToolpaths.set /\ wpath = "beading"
    /\ Len(retToolpaths.value) = 1
    /\ insetsOf(retToolpaths.value[1]) = {1}

\* C6 as claimed: generate() dispatches to the simple-offset fallback only
\* when the section is WALL, and in every other combination of section and
\* scope it runs the beading path.
C6_SimpleOffsetsOnlyForWalls ==
    wpath \in {"simple", "beading"} =>
        /\ wpath = "simple" => wcfg.section_type = "WALL"
        /\ wcfg.section_type # "WALL" => wpath = "beading"

\* C6 (amended): generate() returns without dispatching when the prepared
\* outline has no area; otherwise it dispatches to the simple-offset
\* fallback exactly when the scope is OFF, or ONLY_SKIN outside a SKIN
\* section, or INNER_WALL_SKIN outside a SKIN section with at most one
\* inset, and to the beading path in every other combination.
C6_DispatchByScopeAndSection ==
    wpath # "none" =>
        IF preparedArea(wcfg.outline) <= 0 THEN wpath = "degenerate"
        ELSE /\ wpath \in {"simple", "beading"}
             /\ wpath = "simple" <=>
                    \/ wcfg.scope = "OFF"
                    \/ wcfg.scope = "ONLY_SKIN" /\ wcfg.section_type # "SKIN"
                    \/ /\ wcfg.scope = "INNER_WALL_SKIN"
                       /\ wcfg.section_type # "SKIN"
                       /\ wcfg.inset_count <= 1

\* C6 witness: scope OFF sends a SKIN section to the simple-offset fallback.
C6_Witness ==
    /\ wpath = "simple" /\ wcfg.section_type = "SKIN" /\ wcfg.scope = "OFF"
    /\ retToolpaths.set /\ retToolpaths.value # <<>>

\* C7: with inset_count = 0 the returned toolpaths are empty, the returned
\* inner contour is the outline, and the call completes normally, for every
\* scope and section.
C7_NoInsetsGiveOutline ==
    (wpc # "idle" /\ wcfg.inset_count = 0) =>
        /\ wpc # "crashed"
        /\ retToolpaths.set => retToolpaths.value = <<>>
        /\ retContour.set => retContour.value = OutlineShape(wcfg)

\* C10: every closed line of the returned toolpaths has its first junction
\* equal to its last, on the beading path and on the simple-offset path.
C10_ClosedLinesEndAtTheirStart ==
    retToolpaths.set =>
        \A k \in 1..Len(retToolpaths.value) :
            \A j \in 1..Len(retToolpaths.value[k]) :
                LET line == retToolpaths.value[k][j] IN
                (line.is_closed /\ line.junctions # <<>>)
                    => line.junctions[1] = line.junctions[Len(line.junctions)]

\* The outline is narrower than small_area_length_, half a bead width:
\* removeSmallAreas leaves nothing of it.
sliverOutline == 2 * wcfg.outline < FixedOuterWidth

\* C22 as claimed: if the outline has area <= 0 after preprocessing,
\* generate() returns empty toolpaths and getInnerContour() returns an empty
\* shape, without failing, for every inset_count.
C22_DegenerateGivesEmpty ==
    (wpc # "idle" /\ sliverOutline) =>
        /\ wpc # "crashed"
        /\ toolpaths_ = <<>>
        /\ retToolpaths.set => retToolpaths.value = <<>>
        /\ retContour.set => retContour.value = [kind |-> "empty"]

\* C22 (amended): if the outline has area <= 0 after preprocessing, the
\* toolpaths are empty and nothing fails, for every inset_count;
\* getInnerContour() returns an empty shape for inset_count >= 1 and the
\* original outline for inset_count = 0.
C22_DegenerateGivesEmptyOrOutline ==
    (wpc # "idle" /\ sliverOutline) =>
        /\ wpc # "crashed"
        /\ toolpaths_ = <<>>
        /\ retToolpaths.set => retToolpaths.value = <<>>
        /\ retContour.set =>
              retContour.value = IF wcfg.inset_count = 0 THEN OutlineShape(wcfg)
                                 ELSE [kind |-> "empty"]

\* C22 witness: both getters have returned on a degenerate outline with
\* walls asked for.
C22_Witness ==
    /\ sliverOutline
    /\ wcfg.inset_count >= 1
    /\ wpath = "degenerate"
    /\ retToolpaths.set /\ retToolpaths.value = <<>>
    /\ retContour.set /\ retContour.value = [kind |-> "empty"]

\* C27: on one WallToolPaths object generate() runs at most once, whichever
\* path (beading, simple offset, degenerate outline) the first run took:
\* every later getter call returns the stored result.
C27_GeneratesAtMostOnce == generate_calls <= 1


(***************************************************************************)
(* Specification SpecJunctions: the toolpaths as generated, by             *)
(* connectJunctions from the junctions of two polygon domains or by        *)
(* generateSimpleWalls.                                                    *)
(***************************************************************************)
InitJunctions ==
    /\ IdleGraph
    /\ IdleBeading
    /\ IdleWalls
    /\ IdleOther

\* generateJunctions and the start of connectJunctions: every quad start is
\* put into unprocessed_quad_starts.
GenerateJunctions ==
    \E domains \in [1..2 -> DomainsOfModel] :
        /\ cjpc = "idle"
        /\ cjDomains' = domains
        /\ cjTodo' = quadStarts(domains)
        /\ cjPaths' = <<>>
        /\ cjpc' = "junctions"
        /\ UNCHANGED <<graphVars, beadingVars, wallVars, callVars, coreVars>>

\* connectJunctions, one pass of the while loop: poly_domain_start is
\* *unprocessed_quad_starts.begin(), the first element of an unordered set
\* of edge addresses, which may be any of its elements.
ConnectJunctions ==
    \E poly_domain_start \in cjTodo :
        LET d == poly_domain_start[1]
            todo == { q \in cjTodo : q[1] # d }
        IN /\ cjpc = "junctions"
           /\ cjPaths' = connectDomain(cjPaths, cjDomains[d], d, poly_domain_start[2], 0)
           /\ cjTodo' = todo
           /\ cjpc' = IF todo = {} THEN "done" ELSE "junctions"
           /\ UNCHANGED cjDomains
           /\ UNCHANGED <<graphVars, beadingVars, wallVars, callVars, coreVars>>

\* generateSimpleWalls on a square outline.
SimpleWalls ==
    \E outline \in OutlineWidths, inset_count \in 1..MaxInsetCount :
        /\ cjpc = "idle"
        /\ cjPaths' = generateSimpleWalls([i \in 1..inset_count |-> <<>>], outline, 0,
                                          inset_count).toolpaths
        /\ cjpc' = "simple"
        /\ UNCHANGED <<cjDomains, cjTodo>>
        /\ UNCHANGED <<graphVars, beadingVars, wallVars, callVars, coreVars>>

NextJunctions == GenerateJunctions \/ ConnectJunctions \/ SimpleWalls

SpecJunctions == InitJunctions /\ [][NextJunctions]_vars

lineOrder(generated_toolpaths) ==
    [b \in 1..Len(generated_toolpaths) |->
        [l \in 1..Len(generated_toolpaths[b]) |->
            { generated_toolpaths[b][l].junctions[k].p :
                  k \in 1..Len(generated_toolpaths[b][l].junctions) }]]

\* The line orders connectJunctions can end with, over every order in which
\* the unordered set may hand out the remaining quad starts.
RECURSIVE connectOutcomes(_, _, _)
connectOutcomes(generated_toolpaths, domains, todo) ==
    IF todo = {} THEN { lineOrder(generated_toolpaths) }
    ELSE UNION { connectOutcomes(
                     connectDomain(generated_toolpaths, domains[q[1]], q[1], q[2], 0),
                     domains, { r \in todo : r[1] # q[1] }) : q \in todo }

\* C16: for identical input the order of the lines inside each inset bucket
\* is the same on every run: the quad starts still to be processed admit one
\* line order only, whatever order the hash set iterates in.
C16_OneLineOrderPerInput ==
    cjpc = "junctions" => Cardinality(connectOutcomes(cjPaths, cjDomains, cjTodo)) = 1

(***************************************************************************)
(* Specification SpecToolPathOps: the passes at the end of generate(),     *)
(* separateOutInnerContour and removeEmptyToolPaths, each called on        *)
(* toolpaths as generate() has them at that point.                         *)
(***************************************************************************)
\* toolpaths_ after stitching, removeSmallFillLines and simplifyToolPaths.
SimplifiedToolPaths ==
    { simplifyToolPaths(removeSmallFillLines(stitchToolPaths(addToolpathSegment(<<>>, lines, 1)))) :
          lines \in UNION { SkeletalOutputs(n) : n \in 1..MaxInsetCount } }

InitToolPathOps ==
    /\ IdleGraph
    /\ IdleBeading
    /\ IdleWalls
    /\ IdleJunctions
    /\ IdleCore
    /\ callpc = "args"
    /\ callFn = ""
    /\ callArgs \in SimplifiedToolPaths
    /\ callRet = <<>>

SeparateOutInnerContour ==
    /\ callpc = "args"
    /\ callFn' = "separateOutInnerContour"
    /\ callRet' = separateOutInnerContour(callArgs, 1, <<>>, <<>>)
    /\ callpc' = "returned"
    /\ UNCHANGED callArgs
    /\ UNCHANGED <<graphVars, beadingVars, wallVars, junctionVars, coreVars>>

RemoveEmptyToolPaths ==
    /\ callpc = "args"
    /\ callFn' = "removeEmptyToolPaths"
    /\ callRet' = [toolpaths |-> removeEmptyToolPaths(callArgs),
                   result |-> removeEmptyToolPathsResult(callArgs)]
    /\ callpc' = "returned"
    /\ UNCHANGED callArgs
    /\ UNCHANGED <<graphVars, beadingVars, wallVars, junctionVars, coreVars>>

NextToolPathOps == SeparateOutInnerContour \/ RemoveEmptyToolPaths

SpecToolPathOps == InitToolPathOps /\ [][NextToolPathOps]_vars

\* The lines of a sequence of buckets, in order.
RECURSIVE linesOf(_)
linesOf(buckets) ==
    IF buckets = <<>> THEN <<>> ELSE buckets[1] \o linesOf(Tail(buckets))

\* A bucket whose first line starts with a junction of width 0.
firstJunctionIsContour(inset) ==
    /\ inset # <<>>
    /\ inset[1].junctions # <<>>
    /\ inset[1].junctions[1].w = 0

C17_TrueWhenPathsAreLeft ==
    callFn = "removeEmptyToolPaths" =>
        (callRet.result <=> callRet.toolpaths # <<>>)

(***************************************************************************)
(* Specification SpecSeam: ZSeamConfig::getInterpolatedSeamPosition on a   *)
(* ZSeamConfig with up to MaxSeamPoints seam points.  A position is        *)
(* <<x, y>>, std::nullopt is <<>>; a seam point is <<x, y, z>>.            *)
(***************************************************************************)
MaxSeamPoints == 2

SeamPoints == { <<0, 0, 100>>, <<1000, 500, 300>>, <<400, -200, 300>>, <<-300, 700, 200>> }
LayerZs == { 50, 100, 150, 200, 250, 300, 350 }

ZSeamConfigs ==
    [draw_z_seam_enable_ : BOOLEAN,
     draw_z_seam_points_ : UNION { [1..k -> SeamPoints] : k \in 0..MaxSeamPoints },
     draw_z_seam_grow_ : BOOLEAN,
     current_layer_z_ : LayerZs]

\* What std::sort by z_ may leave: it is not stable, points of one z_ come
\* out in any order.
sortedByZ(points) ==
    LET n == Len(points)
        perms == { f \in [1..n -> 1..n] : \A i, j \in 1..n : i # j => f[i] # f[j] }
    IN { [i \in 1..n |-> points[f[i]]] : f \in { g \in perms :
             \A i \in 1..(n - 1) : points[g[i]][3] <= points[g[i + 1]][3] } }

\* static_cast<coord_t>(t * d) with t = num / den, den > 0: towards zero.
truncatedShare(num, den, d) ==
    IF num * d >= 0 THEN (num * d) \div den ELSE -((-(num * d)) \div den)

\* getInterpolatedSeamPosition, the loop over the intervals from index i.
RECURSIVE interpolateFrom(_, _, _)
interpolateFrom(sorted_points, layer_z, i) ==
    IF i > Len(sorted_points) - 1 THEN <<>>
    ELSE LET p1 == sorted_points[i]
             p2 == sorted_points[i + 1]
         IN IF layer_z >= p1[3] /\ layer_z <= p2[3]
            THEN IF layer_z = p1[3] THEN <<p1[1], p1[2]>>
                 ELSE IF layer_z = p2[3] THEN <<p2[1], p2[2]>>
                 ELSE <<p1[1] + truncatedShare(layer_z - p1[3], p2[3] - p1[3], p2[1] - p1[1]),
                        p1[2] + truncatedShare(layer_z - p1[3], p2[3] - p1[3], p2[2] - p1[2])>>
            ELSE interpolateFrom(sorted_points, layer_z, i + 1)

\* ZSeamConfig::getInterpolatedSeamPosition, sorted_points being what the
\* sort left.
getInterpolatedSeamPosition(cfg, sorted_points) ==
    LET points == cfg.draw_z_seam_points_
        layer_z == cfg.current_layer_z_
    IN IF ~cfg.draw_z_seam_enable_ \/ points = <<>> THEN <<>>
       ELSE IF Len(points) = 1 THEN <<points[1][1], points[1][2]>>
       ELSE LET front == sorted_points[1]
                back == sorted_points[Len(sorted_points)]
            IN IF layer_z < front[3] THEN <<front[1], front[2]>>
               ELSE IF layer_z > back[3]
               THEN IF cfg.draw_z_seam_grow_ THEN <<>> ELSE <<back[1], back[2]>>
               ELSE interpolateFrom(sorted_points, layer_z, 1)

InitSeam ==
    /\ IdleGraph
    /\ IdleBeading
    /\ IdleWalls
    /\ IdleJunctions
    /\ IdleCore
    /\ callpc = "args"
    /\ callFn = ""
    /\ callArgs \in ZSeamConfigs
    /\ callRet = <<>>

GetInterpolatedSeamPosition ==
    \E sorted_points \in sortedByZ(callArgs.draw_z_seam_points_) :
        /\ callpc = "args"
        /\ callFn' = "getInterpolatedSeamPosition"
        /\ callRet' = getInterpolatedSeamPosition(callArgs, sorted_points)
        /\ callpc' = "returned"
        /\ UNCHANGED callArgs
        /\ UNCHANGED <<graphVars, beadingVars, wallVars, junctionVars, coreVars>>

NextSeam == GetInterpolatedSeamPosition

SpecSeam == InitSeam /\ [][NextSeam]_vars

\* The positions of the seam points that lie at height z.
positionsAt(points, z) ==
    { <<points[i][1], points[i][2]>> : i \in { k \in 1..Len(points) : points[k][3] = z } }

\* C13: for any non-empty list of seam points (the custom seam points being
\* enabled): when layer_z is below the lowest seam point the interpolated
\* position is the lowest point's (x, y); when layer_z is above the highest
\* seam point the result is "no seam" if draw_z_seam_grow is true and the
\* highest point's (x, y) if it is false.
C13_OutOfRangeSeam ==
    (/\ callFn = "getInterpolatedSeamPosition"
     /\ callArgs.draw_z_seam_enable_
     /\ callArgs.draw_z_seam_points_ # <<>>) =>
        LET points == callArgs.draw_z_seam_points_
            zs == { points[i][3] : i \in 1..Len(points) }
            min_z == CHOOSE z \in zs : \A y \in zs : z <= y
            max_z == CHOOSE z \in zs : \A y \in zs : z >= y
            layer_z == callArgs.current_layer_z_
        IN /\ layer_z < min_z => callRet \in positionsAt(points, min_z)
           /\ layer_z > max_z =>
                  IF callArgs.draw_z_seam_grow_ THEN callRet = <<>>
                  ELSE callRet \in positionsAt(points, max_z)

(***************************************************************************)
(* Specification SpecRibs: generateTransitioningRibs with its call of      *)
(* generateTransitionMids, edge by edge.  The graph is the input: every    *)
(* step takes the next edge of graph_.edges, which may break an invariant. *)
(***************************************************************************)
MaxFaultyEdges == 101   \* edges of one graph that break the same invariant

MissingTransitionsLimit == 10
CentralUnsetLimit == 100

\* CrashSafeDebug::assertWithInfo: TRUE when the call ends the program.  It
\* logs and then runs assert(condition), which a build with NDEBUG drops.
assertWithInfo(condition, no_debug) ==
    ~condition /\ ~no_debug

InitRibs ==
    /\ IdleGraph
    /\ IdleBeading
    /\ IdleWalls
    /\ IdleJunctions
    /\ IdleCalls
    /\ IdleCtor
    /\ ribpc = "idle"
    /\ ndebug \in BOOLEAN
    /\ central_unset_count = 0
    /\ missing_transitions_count = 0

\* generateTransitioningRibs up to its call of generateTransitionMids.
GenerateTransitioningRibs ==
    /\ ribpc = "idle"
    /\ ribpc' = "mids"
    /\ UNCHANGED <<ndebug, central_unset_count, missing_transitions_count>>
    /\ UNCHANGED <<graphVars, beadingVars, wallVars, junctionVars, callVars, ctorVars>>

\* generateTransitionMids, one pass of the loop over graph_.edges.
TransitionMidsOfNextEdge ==
    \E centralIsSet \in BOOLEAN :
        /\ ribpc = "mids"
        /\ IF ~centralIsSet
           THEN /\ central_unset_count < MaxFaultyEdges
                /\ central_unset_count' = central_unset_count + 1
                /\ ribpc' = IF /\ central_unset_count + 1 > CentralUnsetLimit
                               /\ assertWithInfo(FALSE, ndebug)
                            THEN "aborted" ELSE "mids"
           ELSE /\ ribpc' = "mids"
                /\ UNCHANGED central_unset_count
        /\ UNCHANGED <<ndebug, missing_transitions_count>>
        /\ UNCHANGED <<graphVars, beadingVars, wallVars, junctionVars, callVars, ctorVars>>

\* generateTransitionMids returns; its counter goes out of scope.
TransitionMidsDone ==
    /\ ribpc = "mids"
    /\ ribpc' = "ribs"
    /\ central_unset_count' = 0
    /\ UNCHANGED <<ndebug, missing_transitions_count>>
    /\ UNCHANGED <<graphVars, beadingVars, wallVars, junctionVars, callVars, ctorVars>>

\* generateTransitioningRibs, one pass of the loop that checks the central
\* edges between nodes of different bead counts.
CheckTransitionsOfNextEdge ==
    \E central \in BOOLEAN, differing \in BOOLEAN, hasTransition \in BOOLEAN :
        /\ ribpc = "ribs"
        /\ IF central /\ differing /\ ~hasTransition
           THEN /\ missing_transitions_count < MaxFaultyEdges
                /\ missing_transitions_count' = missing_transitions_count + 1
                /\ ribpc' = IF /\ missing_transitions_count + 1 > MissingTransitionsLimit
                               /\ assertWithInfo(FALSE, ndebug)
                            THEN "aborted" ELSE "ribs"
           ELSE UNCHANGED <<ribpc, missing_transitions_count>>
        /\ UNCHANGED <<ndebug, central_unset_count>>
        /\ UNCHANGED <<graphVars, beadingVars, wallVars, junctionVars, callVars, ctorVars>>

\* The rest of generateTransitioningRibs, to its return.
TransitioningRibsDone ==
    /\ ribpc = "ribs"
    /\ ribpc' = "returned"
    /\ UNCHANGED <<ndebug, central_unset_count, missing_transitions_count>>
    /\ UNCHANGED <<graphVars, beadingVars, wallVars, junctionVars, callVars, ctorVars>>

NextRibs ==
    \/ GenerateTransitioningRibs
    \/ TransitionMidsOfNextEdge
    \/ TransitionMidsDone
    \/ CheckTransitionsOfNextEdge
    \/ TransitioningRibsDone

SpecRibs == InitRibs /\ [][NextRibs]_vars

\* C14: when a graph invariant is found broken after construction (missing
\* transition on a central edge, unset centrality, transition position out
\* of range), the core skips the offending element and continues; it never
\* aborts.
C14_NeverAborts ==
    ribpc # "aborted"

(***************************************************************************)
(* Specification SpecCtor: the constructor of SkeletalTrapezoidation run   *)
(* by invocations of the core that work in parallel on different regions;  *)
(* its first statement is CrashSafeDebug::initialize().                    *)
(***************************************************************************)
MaxInvocations == 3

Invocations == 1..MaxInvocations

InitCtor ==
    /\ IdleGraph
    /\ IdleBeading
    /\ IdleWalls
    /\ IdleJunctions
    /\ IdleCalls
    /\ IdleRibs
    /\ initialized_ = FALSE
    /\ handlers = {}
    /\ ctorpc = [i \in Invocations |-> "start"]
    /\ accesses = {}

\* CrashSafeDebug::initialize(): if (initialized_) return;
InitializeTest(i) ==
    /\ ctorpc[i] = "start"
    /\ ctorpc' = [ctorpc EXCEPT ![i] = IF initialized_ THEN "construct" ELSE "signal"]
    /\ accesses' = accesses \cup { <<i, "read", "initialized_">> }
    /\ UNCHANGED <<initialized_, handlers>>
    /\ UNCHANGED <<graphVars, beadingVars, wallVars, junctionVars, callVars, ribVars>>

\* CrashSafeDebug::initialize(): the calls of signal().
InitializeSignal(i) ==
    /\ ctorpc[i] = "signal"
    /\ handlers' = handlers \cup {i}
    /\ ctorpc' = [ctorpc EXCEPT ![i] = "set"]
    /\ accesses' = accesses \cup { <<i, "write", "signal handlers">> }
    /\ UNCHANGED initialized_
    /\ UNCHANGED <<graphVars, beadingVars, wallVars, junctionVars, callVars, ribVars>>

\* CrashSafeDebug::initialize(): initialized_ = true;
InitializeSet(i) ==
    /\ ctorpc[i] = "set"
    /\ initialized_' = TRUE
    /\ ctorpc' = [ctorpc EXCEPT ![i] = "construct"]
    /\ accesses' = accesses \cup { <<i, "write", "initialized_">> }
    /\ UNCHANGED handlers
    /\ UNCHANGED <<graphVars, beadingVars, wallVars, junctionVars, callVars, ribVars>>

\* The rest of the constructor: constructFromPolygons and
\* validateAndFixGraphIntegrity, on the graph of the invocation.
ConstructFromPolygons(i) ==
    /\ ctorpc[i] = "construct"
    /\ ctorpc' = [ctorpc EXCEPT ![i] = "constructed"]
    /\ UNCHANGED <<initialized_, handlers, accesses>>
    /\ UNCHANGED <<graphVars, beadingVars, wallVars, junctionVars, callVars, ribVars>>

NextCtor ==
    \E i \in Invocations :
        \/ InitializeTest(i)
        \/ InitializeSignal(i)
        \/ InitializeSet(i)
        \/ ConstructFromPolygons(i)

SpecCtor == InitCtor /\ [][NextCtor]_vars

\* C15: invocations of the core that run in parallel share no mutable
\* state: no invocation writes process-wide data that another invocation
\* reads or writes.
C15_NoSharedMutableState ==
    \A a \in accesses, b \in accesses :
        (a[2] = "write" /\ a[3] = b[3]) => a[1] = b[1]

(***************************************************************************)
(* Specification SpecBeadCount: getOptimalBeadCount and                    *)
(* getTransitionThickness of the fixed-outer-wall strategy.                *)
(***************************************************************************)
InitBeadCount ==
    /\ IdleGraph
    /\ IdleBeading
    /\ IdleWalls
    /\ IdleJunctions
    /\ IdleCore
    /\ callpc = "args"
    /\ callFn = ""
    /\ callArgs \in [thickness : Thicknesses, lower_bead_count : BeadCounts]
    /\ callRet = <<>>

GetOptimalBeadCount ==
    /\ callpc = "args"
    /\ callFn' = "getOptimalBeadCount"
    /\ callRet' = getOptimalBeadCount(callArgs.thickness)
    /\ callpc' = "returned"
    /\ UNCHANGED callArgs
    /\ UNCHANGED <<graphVars, beadingVars, wallVars, junctionVars, coreVars>>

GetTransitionThickness ==
    /\ callpc = "args"
    /\ callFn' = "getTransitionThickness"
    /\ callRet' = getTransitionThickness(callArgs.lower_bead_count)
    /\ callpc' = "returned"
    /\ UNCHANGED callArgs
    /\ UNCHANGED <<graphVars, beadingVars, wallVars, junctionVars, coreVars>>

NextBeadCount == GetOptimalBeadCount \/ GetTransitionThickness

SpecBeadCount == InitBeadCount /\ [][NextBeadCount]_vars

\* C26: for the fixed-outer-wall strategy optimal_bead_count agrees with
\* transition_thickness: for every thickness t and every n in {0, 1, 2},
\* optimal_bead_count(t) <= n exactly when t < transition_thickness(n).
C26_BeadCountAgreesWithTransition ==
    (callFn = "getOptimalBeadCount" /\ callArgs.lower_bead_count \in {0, 1, 2}) =>
        (callRet <= callArgs.lower_bead_count
            <=> callArgs.thickness < getTransitionThickness(callArgs.lower_bead_count))


(***************************************************************************)
(* Specification SpecSmallFill: removeSmallFillLines on stitched           *)
(* toolpaths.                                                              *)
(***************************************************************************)
\* toolpaths_ after connectJunctions and stitchToolPaths.
StitchedToolPaths ==
    { stitchToolPaths(addToolpathSegment(<<>>, lines, 1)) :
          lines \in UNION { SkeletalOutputs(n) : n \in 1..MaxInsetCount } }

InitSmallFill ==
    /\ callpc = "args"
    /\ callFn = ""
    /\ callArgs \in StitchedToolPaths
    /\ callRet = <<>>
    /\ IdleGraph /\ IdleBeading /\ IdleWalls /\ IdleJunctions /\ IdleCore

\* removeSmallFillLines(toolpaths); callRet is toolpaths afterwards.
RemoveSmallFillLines ==
    /\ callpc = "args"
    /\ callFn' = "removeSmallFillLines"
    /\ callRet' = removeSmallFillLines(callArgs)
    /\ callpc' = "returned"
    /\ UNCHANGED callArgs
    /\ UNCHANGED <<graphVars, beadingVars, wallVars, junctionVars, coreVars>>

NextSmallFill == RemoveSmallFillLines

SpecSmallFill == InitSmallFill /\ [][NextSmallFill]_vars

\* A line that is odd, open, not an outer wall and shorter than half its
\* minimum junction width.
smallFillLine(line) ==
    /\ line.is_odd
    /\ ~line.is_closed
    /\ line.inset_idx # 0
    /\ \A k \in 1..Len(line.junctions) : line.length < line.junctions[k].w \div 2

\* How often a line is in a bucket.
timesIn(inset, line) == Cardinality({ k \in 1..Len(inset) : inset[k] = line })

MaxPolyDomains == 100001    \* most polygon domains of a graph
MainLoopLimit == 100000     \* main_loop_count beyond which the main loop is left
DoLoopLimit == 10000        \* do_loop_count beyond which a domain is left

PolyDomainCounts == {1, 2, 3, MaxPolyDomains}
QuadsPerDomain == {3, 4}

InitConnectLoop ==
    /\ callpc = "args"
    /\ callFn = ""
    /\ callArgs \in [poly_domains : PolyDomainCounts, quads : QuadsPerDomain]
    /\ callRet = <<>>
    /\ IdleGraph /\ IdleBeading /\ IdleWalls /\ IdleJunctions /\ IdleCore

\* connectJunctions up to its main loop: every edge without prev_ is put
\* into unprocessed_quad_starts.
ConnectJunctionsBegin ==
    /\ callpc = "args"
    /\ callFn' = "connectJunctions"
    /\ callRet' = [main_loop_count |-> 0,
                   unprocessed_quad_starts |-> callArgs.poly_domains * callArgs.quads]
    /\ callpc' = "loop"
    /\ UNCHANGED callArgs
    /\ UNCHANGED <<graphVars, beadingVars, wallVars, junctionVars, coreVars>>

\* One pass of the main loop: it is left when main_loop_count passes the
\* limit; otherwise the do-while loop walks the domain of
\* poly_domain_start and erases each of its quad starts.
ConnectJunctionsMainLoop ==
    /\ callpc = "loop"
    /\ callRet.unprocessed_quad_starts > 0
    /\ LET main_loop_count == callRet.main_loop_count + 1 IN
       IF main_loop_count > MainLoopLimit
       THEN /\ callRet' = [callRet EXCEPT !.main_loop_count = main_loop_count]
            /\ callpc' = "returned"
       ELSE /\ callArgs.quads <= DoLoopLimit
            /\ callRet' = [main_loop_count |-> main_loop_count,
                           unprocessed_quad_starts |->
                               callRet.unprocessed_quad_starts - callArgs.quads]
            /\ callpc' = "loop"
    /\ UNCHANGED <<callFn, callArgs>>
    /\ UNCHANGED <<graphVars, beadingVars, wallVars, junctionVars, coreVars>>

\* The main loop ends on the empty set and connectJunctions returns.
ConnectJunctionsReturn ==
    /\ callpc = "loop"
    /\ callRet.unprocessed_quad_starts = 0
    /\ callpc' = "returned"
    /\ UNCHANGED <<callFn, callArgs, callRet>>
    /\ UNCHANGED <<graphVars, beadingVars, wallVars, junctionVars, coreVars>>

NextConnectLoop == ConnectJunctionsBegin \/ ConnectJunctionsMainLoop \/ ConnectJunctionsReturn

SpecConnectLoop == InitConnectLoop /\ [][NextConnectLoop]_vars

\* connectJunctions is sequential code: a step that can run does run.
FairConnectLoop == SpecConnectLoop /\ WF_vars(NextConnectLoop)

\* C28: connectJunctions terminates for every graph, and when it returns
\* every quad start has been processed and removed from
\* unprocessed_quad_starts, whatever the number of quads.
C28_ReturnsWithAllQuadsProcessed ==
    /\ <>(callpc = "returned")
    /\ [](callpc = "returned" => callRet.unprocessed_quad_starts = 0)


(***************************************************************************)
(* Specification SpecTransitionMids: the transition middles of one edge,   *)
(* for the fixed-outer-wall strategy alone and below a widening strategy.  *)
(***************************************************************************)
\* min_input_width_ of the widening strategy (min_feature_size); 0 stands
\* for no widening strategy.
TransitionMinInputWidths == {0, 100, 700}
TransitionRadii == {0, 100, 300, 500, 1000}     \* distance_to_boundary_ of the end nodes
EdgeSizes == {400, 1000}

\* WideningBeadingStrategy::getTransitionThickness
WideningGetTransitionThickness(min_input_width, lower_bead_count) ==
    IF lower_bead_count = 0 THEN min_input_width
    ELSE getTransitionThickness(lower_bead_count)

\* beading_strategy_.getTransitionThickness, as a function of the bead count.
strategyTransitionThickness(min_input_width) ==
    [n \in BeadCounts |->
        IF min_input_width = 0 THEN getTransitionThickness(n)
        ELSE WideningGetTransitionThickness(min_input_width, n)]

\* An upward central edge between nodes of different bead counts.
InitTransitionMids ==
    /\ callpc = "args"
    /\ callFn = ""
    /\ callArgs \in { a \in [min_input_width : TransitionMinInputWidths,
                              start_R : TransitionRadii, end_R : TransitionRadii,
                              start_bead_count : BeadCounts, end_bead_count : BeadCounts,
                              edge_size : EdgeSizes] :
                          a.start_R < a.end_R /\ a.start_bead_count < a.end_bead_count }
    /\ callRet = <<>>
    /\ IdleGraph /\ IdleBeading /\ IdleWalls /\ IdleJunctions /\ IdleCore

\* generateTransitionMids, the pass over this edge; callRet is the list
\* edge.data_.getTransitions() afterwards.
TransitionMidsOfEdge ==
    /\ callpc = "args"
    /\ callFn' = "generateTransitionMids"
    /\ callRet' = transitionMidsOfEdgeWith(
                       strategyTransitionThickness(callArgs.min_input_width), <<>>,
                       callArgs.start_bead_count, callArgs.end_bead_count,
                       callArgs.start_R, callArgs.end_R, callArgs.edge_size)
    /\ callpc' = "returned"
    /\ UNCHANGED callArgs
    /\ UNCHANGED <<graphVars, beadingVars, wallVars, junctionVars, coreVars>>

NextTransitionMids == TransitionMidsOfEdge

SpecTransitionMids == InitTransitionMids /\ [][NextTransitionMids]_vars

\* The position on the edge of the transition from lower to lower + 1 beads.
transitionPos(a, lower) ==
    LET R == strategyTransitionThickness(a.min_input_width)[lower] \div 2
        clamped == Max2(a.start_R, Min2(a.end_R, R))
    IN (a.edge_size * (clamped - a.start_R)) \div (a.end_R - a.start_R)

\* The transition of lower is among the stored ones.
storedTransition(trans, lower) == \E k \in 1..Len(trans) : trans[k].lower_bead_count = lower

\* C23: the stored transition middles of an edge have positions within
\* [0, edge length], in non-decreasing order; a transition that lies outside
\* the edge or before a stored one is skipped, and every other transition,
\* the ones after a skipped one too, is stored.
C23_TransitionsOrderedOnEdge ==
    callFn = "generateTransitionMids" =>
        /\ \A k \in 1..Len(callRet) : callRet[k].pos >= 0 /\ callRet[k].pos <= callArgs.edge_size
        /\ \A k \in 1..(Len(callRet) - 1) : callRet[k].pos <= callRet[k + 1].pos
        /\ \A lower \in callArgs.start_bead_count..(callArgs.end_bead_count - 1) :
              storedTransition(callRet, lower) <=>
                  /\ transitionPos(callArgs, lower) \in 0..callArgs.edge_size
                  /\ \A k \in 1..Len(callRet) :
                        callRet[k].lower_bead_count < lower
                            => callRet[k].pos <= transitionPos(callArgs, lower)

\* C23, its case: a transition was skipped and a later one is stored behind
\* an earlier one.
C23_Witness ==
    /\ callFn = "generateTransitionMids"
    /\ Len(callRet) >= 2
    /\ \E lower \in callArgs.start_bead_count..(callArgs.end_bead_count - 1) :
          /\ ~storedTransition(callRet, lower)
          /\ storedTransition(callRet, lower + 1)


(***************************************************************************)
(* Specification SpecInterpolate: interpolate with a switching radius.     *)
(* A Ratio is a pair <<numerator, denominator>> with a positive            *)
(* denominator; the arithmetic on doubles is taken as exact.               *)
(***************************************************************************)
MaxInterpolatedBeads == 3       \* most toolpath locations of a beading
ToolpathLocations == {100, 200, 500, 900}
SwitchingRadii == {110, 150, 300, 600}
Ratios == {<<0, 4>>, <<1, 4>>, <<2, 4>>, <<3, 4>>, <<4, 4>>}

\* The increasing sequences of toolpath locations.
LocationLists ==
    { locs \in UNION { [1..n -> ToolpathLocations] : n \in 1..MaxInterpolatedBeads } :
          \A k \in 1..(Len(locs) - 1) : locs[k] < locs[k + 1] }

\* A beading at these locations, of beads of one width.
beadingAt(total_thickness, locs) ==
    Beading(total_thickness, [k \in 1..Len(locs) |-> BeadWidthX], locs, 0)

\* ratio * a + (1 - ratio) * b, converted to coord_t.
blend(ratio, a, b) == (ratio[1] * a + (ratio[2] - ratio[1]) * b) \div ratio[2]

\* interpolate(left, ratio_left_to_whole, right)
interpolate(left, ratio_left_to_whole, right) ==
    LET ret == IF left.total_thickness > right.total_thickness THEN left ELSE right
        n == Min2(Len(left.bead_widths), Len(right.bead_widths))
    IN [ret EXCEPT
            !.bead_widths = [k \in 1..Len(ret.bead_widths) |->
                IF k > n THEN ret.bead_widths[k]
                ELSE IF left.bead_widths[k] = 0 \/ right.bead_widths[k] = 0 THEN 0
                ELSE blend(ratio_left_to_whole, left.bead_widths[k], right.bead_widths[k])],
            !.toolpath_locations = [k \in 1..Len(ret.toolpath_locations) |->
                IF k > n THEN ret.toolpath_locations[k]
                ELSE blend(ratio_left_to_whole, left.toolpath_locations[k],
                           right.toolpath_locations[k])]]

\* The index the loop of interpolate stops at: the last location of left
\* below switching_radius, -1 without one.
RECURSIVE nextInsetIdx(_, _, _)
nextInsetIdx(left, switching_radius, next_inset_idx) ==
    IF next_inset_idx < 0 THEN next_inset_idx
    ELSE IF switching_radius > left.toolpath_locations[next_inset_idx + 1] THEN next_inset_idx
    ELSE nextInsetIdx(left, switching_radius, next_inset_idx - 1)

\* A ratio with a positive denominator.
normalised(num, den) == IF den < 0 THEN <<-num, -den>> ELSE <<num, den>>

\* (s - r) / (l - r) + 0.1 with no upper limit.
resolvedRatio_Unclamped(l, r, s) == normalised(10 * (s - r) + (l - r), 10 * (l - r))

\* std::min(1.0, (s - r) / (l - r) + 0.1)
resolvedRatio(l, r, s) ==
    LET new_ratio == normalised(10 * (s - r) + (l - r), 10 * (l - r))
    IN IF new_ratio[1] > new_ratio[2] THEN <<1, 1>> ELSE new_ratio

\* interpolate(left, ratio_left_to_whole, right, switching_radius): what it
\* returns, whether it solved for the ratio again, and the ratio it then
\* handed to the second interpolation.
interpolateSwitching(left, ratio_left_to_whole, right, switching_radius) ==
    LET ret == interpolate(left, ratio_left_to_whole, right)
        next_inset_idx == nextInsetIdx(left, switching_radius, Len(left.toolpath_locations) - 1)
        unsolved == [beading |-> ret, resolved |-> FALSE, new_ratio |-> ratio_left_to_whole]
    IN IF next_inset_idx < 0 THEN unsolved
       ELSE IF next_inset_idx + 1 = Len(left.toolpath_locations) THEN unsolved
       ELSE IF ret.toolpath_locations[next_inset_idx + 1] > switching_radius
       THEN LET new_ratio == resolvedRatio(left.toolpath_locations[next_inset_idx + 1],
                                           right.toolpath_locations[next_inset_idx + 1],
                                           switching_radius)
            IN [beading |-> interpolate(left, new_ratio, right),
                resolved |-> TRUE, new_ratio |-> new_ratio]
       ELSE unsolved

\* The top and the bottom beading of an edge: the one interpolate copies
\* has a toolpath location at every index that is read.
InitInterpolate ==
    /\ callpc = "args"
    /\ callFn = ""
    /\ callArgs \in { a \in [left_locations : LocationLists, right_locations : LocationLists,
                              left_is_thicker : BOOLEAN, ratio_left_to_whole : Ratios,
                              switching_radius : SwitchingRadii] :
                          a.left_is_thicker \/ Len(a.right_locations) >= Len(a.left_locations) - 1 }
    /\ callRet = <<>>
    /\ IdleGraph /\ IdleBeading /\ IdleWalls /\ IdleJunctions /\ IdleCore

Interpolate ==
    /\ callpc = "args"
    /\ callFn' = "interpolate"
    /\ callRet' = interpolateSwitching(
                       beadingAt(IF callArgs.left_is_thicker THEN 2000 ELSE 1000,
                                 callArgs.left_locations),
                       callArgs.ratio_left_to_whole,
                       beadingAt(IF callArgs.left_is_thicker THEN 1000 ELSE 2000,
                                 callArgs.right_locations),
                       callArgs.switching_radius)
    /\ callpc' = "returned"
    /\ UNCHANGED callArgs
    /\ UNCHANGED <<graphVars, beadingVars, wallVars, junctionVars, coreVars>>

NextInterpolate == Interpolate

SpecInterpolate == InitInterpolate /\ [][NextInterpolate]_vars

MaxParts == 2           \* most parts of the layer
MaxPolygons == 2        \* most polygons of the outline of a part

PolygonWidths == {100, 300, 1000, 1500, 20000}
MinimumCircumferences == {0, 5000}      \* minimum_polygon_circumference

PartOutlines == UNION { [1..k -> PolygonWidths] : k \in 1..MaxPolygons }

\* polygon.length() of a square
polygonCircumference(width) == 4 * width

SliceLayerPart(outline) ==
    [outline |-> outline, print_outline |-> <<>>, inner_area |-> <<>>,
     wall_toolpaths |-> <<>>, spiral_wall |-> <<>>]

\* The predicate of filterSmallLayerParts with minimum_polygon_area = 0: the
\* circumferences of all polygons of the outline are added up.
RECURSIVE totalCircumference(_, _)
totalCircumference(outline, poly_idx) ==
    IF poly_idx > Len(outline) THEN 0
    ELSE polygonCircumference(outline[poly_idx]) + totalCircumference(outline, poly_idx + 1)

shouldRemove(part, min_circumference) ==
    min_circumference > 0 /\ totalCircumference(part.outline, 1) < min_circumference

\* Bucket wall_idx of the simple walls of the polygons k.. of an outline.
RECURSIVE simpleWallsOfPolygons(_, _, _, _)
simpleWallsOfPolygons(prepared_outline, k, wall_idx, inset_count) ==
    IF k > Len(prepared_outline) THEN <<>>
    ELSE generateSimpleWalls([i \in 1..inset_count |-> <<>>], prepared_outline[k], 0,
                             inset_count).toolpaths[wall_idx]
             \o simpleWallsOfPolygons(prepared_outline, k + 1, wall_idx, inset_count)

\* WallToolPaths(outline, ..., wall_count, ...).getToolPaths(): nothing for
\* an outline the preprocessing leaves nothing of, else wall_count buckets.
partToolPaths(outline, wall_count) ==
    LET prepared_outline == SelectSeq(outline, LAMBDA w : preparedArea(w) > 0)
    IN IF prepared_outline = <<>> THEN <<>>
       ELSE [wall_idx \in 1..wall_count |->
                simpleWallsOfPolygons(prepared_outline, 1, wall_idx, wall_count)]

\* getInnerContour() of the same object: the widths of what the walls
\* leave of each polygon.
partInnerContour(outline, wall_count) ==
    LET prepared_outline == SelectSeq(outline, LAMBDA w : preparedArea(w) > 0)
        inner == [k \in 1..Len(prepared_outline) |->
                     generateSimpleWalls([i \in 1..wall_count |-> <<>>], prepared_outline[k], 0,
                                         wall_count).inner_contour.width]
    IN SelectSeq(inner, LAMBDA w : w > 0)

\* generateWalls(part, section_type, layer_z)
generateWallsOfPart(part, wall_count) ==
    IF wall_count = 0
    THEN [part EXCEPT !.print_outline = part.outline, !.inner_area = part.outline]
    ELSE [part EXCEPT !.wall_toolpaths = partToolPaths(part.outline, wall_count),
                      !.inner_area = partInnerContour(part.outline, wall_count),
                      !.print_outline = part.outline]

\* The predicate of the remove_if of generateWalls(layer, section).
withoutWalls(part, check_wall_and_spiral) ==
    \/ check_wall_and_spiral /\ part.wall_toolpaths = <<>> /\ part.spiral_wall = <<>>
    \/ part.outline = <<>>
    \/ part.print_outline = <<>>

InitLayer ==
    /\ callpc = "args"
    /\ callFn = ""
    /\ callArgs \in [parts : UNION { [1..k -> PartOutlines] : k \in 0..MaxParts },
                     minimum_polygon_circumference : MinimumCircumferences,
                     wall_line_count : 0..MaxInsetCount,
                     fill_outline_gaps : BOOLEAN]
    /\ callRet = <<>>
    /\ IdleGraph /\ IdleBeading /\ IdleWalls /\ IdleJunctions /\ IdleCore

\* filterSmallLayerParts(mesh), for this layer.
FilterSmallLayerParts ==
    /\ callpc = "args"
    /\ callFn' = "filterSmallLayerParts"
    /\ callRet' = SelectSeq([k \in 1..Len(callArgs.parts) |-> SliceLayerPart(callArgs.parts[k])],
                            LAMBDA part : ~shouldRemove(part, callArgs.minimum_polygon_circumference))
    /\ callpc' = "filtered"
    /\ UNCHANGED callArgs
    /\ UNCHANGED <<graphVars, beadingVars, wallVars, junctionVars, coreVars>>

\* generateWalls(layer, section)
GenerateWallsOfLayer ==
    /\ callpc = "filtered"
    /\ callFn' = "generateWalls"
    /\ LET check_wall_and_spiral == callArgs.wall_line_count >= 1 /\ ~callArgs.fill_outline_gaps
           parts == [k \in 1..Len(callRet) |->
                        generateWallsOfPart(callRet[k], callArgs.wall_line_count)]
       IN callRet' = SelectSeq(parts, LAMBDA part : ~withoutWalls(part, check_wall_and_spiral))
    /\ callpc' = "returned"
    /\ UNCHANGED callArgs
    /\ UNCHANGED <<graphVars, beadingVars, wallVars, junctionVars, coreVars>>

NextLayer == FilterSmallLayerParts \/ GenerateWallsOfLayer

SpecLayer == InitLayer /\ [][NextLayer]_vars

\* The wall lines of a part.
wallLinesOf(part) == linesOf(part.wall_toolpaths)

\* C21: with minimum_polygon_circumference = L > 0, after wall generation
\* every wall line left in a part's wall toolpaths has length >= L, and no
\* part has walls of a polygon whose circumference is below L.
C21_NoWallShorterThanMinimum ==
    (callFn = "generateWalls" /\ callArgs.minimum_polygon_circumference > 0) =>
        \A k \in 1..Len(callRet) :
            /\ \A j \in 1..Len(wallLinesOf(callRet[k])) :
                  wallLinesOf(callRet[k])[j].length >= callArgs.minimum_polygon_circumference
            /\ \A q \in 1..Len(callRet[k].outline) :
                  polygonCircumference(callRet[k].outline[q]) < callArgs.minimum_polygon_circumference
                      => partToolPaths(<<callRet[k].outline[q]>>, callArgs.wall_line_count)
                             \in {<<>>, [i \in 1..callArgs.wall_line_count |-> <<>>]}

\* C25: after generateWalls has run on a layer with wall_line_count >= 1,
\* every part left in the layer has at least one wall line or a spiral
\* wall.
C25_PartsLeftHaveWalls ==
    (callFn = "generateWalls" /\ callArgs.wall_line_count >= 1) =>
        \A k \in 1..Len(callRet) :
            wallLinesOf(callRet[k]) # <<>> \/ callRet[k].spiral_wall # <<>>

====
